---- MODULE Spec2Model ----
(***************************************************************************)
(* Verification model of the Galois runtime substrate used by the          *)
(* barneshut-galois applications: the conflict-detection discipline on     *)
(* guarded records (Lockable), the Dijkstra-style termination detector and *)
(* the per-worker insert bag.                                              *)
(***************************************************************************)
EXTENDS Integers, Sequences, FiniteSets, Bags, TLC

(***************************************************************************)
(* Bounds                                                                  *)
(***************************************************************************)
\* number of worklist iterations that run concurrently (one per worker)
NumIters == 2
\* number of node records of the graph
NumNodes == 2
\* number of worker threads (ring size of the termination detector, size of PerCPU storage)
NumWorkers == 3
\* capacity of a worker's queue of pending work items
MaxWork == 1
\* number of times the detector is reset for a further phase
MaxResets == 2
\* graphs given to the loader have at most MaxFNodes nodes and MaxFEdges edges
MaxFNodes == 3
MaxFEdges == 2
\* the payload of the first edge of such a graph is one of 1..MaxPay
MaxPay == 2
\* sizeof(NodeInfo) and sizeof(EdgeInfo) of the Linear layouts, in bytes
SizeofNodeInfo == 24
SizeofEdgeInfo == 16
\* number of payload writes made on a built graph
MaxWrites == 1
\* MM::pageSize where the element size ranges over 1..pageSize, in bytes
SegPageSize == 4096
\* number of push calls explored for every element size
MaxSegPush == 4
\* threads updating one GAtomic, the bits of its integer type, the largest right-hand side
NumUpdaters == 2
AtomicBits == 2
MaxDelta == 2
\* positions of a range given to safe_advance are 0..MaxPos, amounts 0..MaxAdvance
MaxPos == 4
MaxAdvance == 5
\* values pushed into the bag are 1..MaxVal
MaxVal == 2
\* total number of push calls explored
MaxPush == 4
\* sizeof(T) of the bag's element type, in bytes
SizeofT == 8
\* MM::pageSize, in bytes (kept small so that a segment fills after a few pushes)
PageSize == 56

VARIABLES
  \* ---- conflict detection ----
  layout,     \* what the guarded records are: the nodes of a graph of one of the four
              \* layouts, or GWrapped objects
  Owner,      \* Lockable marker of every guarded record: owning iteration or NoOwner
  itState,    \* per iteration: "running" | "conflict" (ConflictAbort raised, not yet rolled back)
  acc,        \* per iteration: records it accessed successfully with a checking flag
  lastOp      \* the operation performed by the last step (observation of the call and its result)

lockVars == <<layout, Owner, itState, acc, lastOp>>

VARIABLES
  \* ---- termination detection ----
  tokenIsBlack,   \* TokenHolder::tokenIsBlack of every worker
  hasToken,       \* TokenHolder::hasToken of every worker
  processIsBlack, \* TokenHolder::processIsBlack of every worker
  globalTerm,     \* TerminationDetection::globalTerm
  started,        \* per worker: has it called initializeThread
  work,           \* per worker: pending work items in its queue
  quiet,          \* the workers have stopped for good: no worker calls workHappened any more
  whiteHops,      \* history: consecutive white hand-overs of the token since worker 0 sent it
  calledAny,      \* history: some worker called workHappened during the current circuit
  calledAhead,    \* history: ... and the token had not yet left that worker (or it was worker 0)
  hopsSinceAhead, \* history: token-holder steps since the last such call
  quietHops,      \* history: token-holder steps since quiet was set
  phase           \* number of reset() calls so far

termVars == <<tokenIsBlack, hasToken, processIsBlack, globalTerm, started, work, quiet,
              whiteHops, calledAny, calledAhead, hopsSinceAhead, quietHops, phase>>

VARIABLES
  \* ---- insert bag ----
  heads,      \* PerCPU<header*> heads: per worker the newest segment of its list, or NullPage
  hdr,        \* every page handed out by pageAlloc so far: its header fields and element slots
  pageFrees,  \* history: per page, how many times it was given to pageFree
  dtorCalls,  \* history: per page and slot, how many times the element's destructor ran
  log,        \* history: per worker, the values it pushed since the bag was last empty, in order
  nPush,      \* number of push calls made so far
  bagAlive,   \* FALSE once the bag's destructor has run
  bagOp       \* the bag operation performed by the last step

bagVars == <<heads, hdr, pageFrees, dtorCalls, log, nPush, bagAlive, bagOp>>

VARIABLES
  \* ---- graph files and their loader ----
  input,      \* history: the graph whose image is in file "in", and how the image is damaged
  disk,       \* content of every file, as a sequence of words (NoFile: no such file)
  fg,         \* the FileGraph objects: their fields, and whether a structureFrom* call has run
  fgOp,       \* the loader operation performed by the last step and its outcome
  lc          \* the in-memory graph built by structureFromFile of a layout, or NoGraph

fgVars == <<input, disk, fg, fgOp, lc>>

VARIABLES
  \* ---- the life of a graph object: construction, payload, destruction ----
  env,        \* what the graph is built with: the word NodeTy's default constructor stores
              \* first, and the word fresh memory from largeInterleavedAlloc holds
  nodeRec,    \* per node of the built graph: its Lockable marker word and its payload word
  arena,      \* the arenas the graph allocated: size asked for, sizes given back with
  payRuns,    \* history: per node and edge payload, constructor and destructor runs
  nwrites,    \* number of payload writes made through getData / getEdgeData references
  par         \* LC_Linear2_Graph::structureFromFile under way, worker by worker

conVars == <<env, nodeRec, arena, payRuns, nwrites, par>>

VARIABLES
  \* ---- what the operating system holds for the FileGraph objects ----
  os,         \* the caller's buffer, the region and descriptor of every FileGraph, and
              \* the munmap and close calls made so far
  \* ---- the low-level utilities ----
  seg,        \* one worker's insert bag of elements of some size: its head segment
  si,         \* a StaticInstance and the threads calling get() on it
  ga,         \* a GAtomic and the threads operating on it
  sa          \* a call of safe_advance and what it returned

llVars == <<seg, si, ga, sa>>

vars == <<lockVars, termVars, bagVars, fgVars, conVars, os, llVars>>
notLock == <<termVars, bagVars, fgVars, conVars, os, llVars>>
notTerm == <<lockVars, bagVars, fgVars, conVars, os, llVars>>
notBag == <<lockVars, termVars, fgVars, conVars, os, llVars>>
notFg == <<lockVars, termVars, bagVars, conVars, llVars>>
notGraph == <<lockVars, termVars, bagVars, os, llVars>>
notLl == <<lockVars, termVars, bagVars, fgVars, conVars, os>>

(***************************************************************************)
(* Conflict detection: guarded records and the accessors that acquire them *)
(***************************************************************************)
Iters == 1..NumIters
\* the guarded records: node records NodeInfo of the graph, or GWrapped<T> objects
Nodes == 1..NumNodes
Lockables == Nodes
\* marker value of a record nobody has acquired
NoOwner == 0
\* MethodFlag values the accessors take (NONE and ALL are the defaults in the headers)
Flags == {"NONE", "ALL"}
Layouts == {"CSR", "CSRInline", "Linear", "Linear2"}
Containers == Layouts \cup {"GWrapped"}

\* does an access with flag m take part in conflict detection
shouldLock(m) == m # "NONE"

\* GaloisRuntime::acquire(L, m) called by iteration i on marker state own:
\* the marker state after the call and whether ConflictAbort was raised.
acquire(own, i, L, m) ==
  IF ~shouldLock(m) THEN [Owner |-> own, abort |-> FALSE]
  ELSE IF own[L] = NoOwner THEN [Owner |-> [own EXCEPT ![L] = i], abort |-> FALSE]
  ELSE IF own[L] = i THEN [Owner |-> own, abort |-> FALSE]
  ELSE [Owner |-> own, abort |-> TRUE]

\* One guarded access by iteration i: the caller asked for record N with flag
\* mflag; the accessor passes lockable L and flag m on to acquire.
Access(op, i, N, mflag, L, m) ==
  /\ itState[i] = "running"
  /\ LET r == acquire(Owner, i, L, m) IN
       /\ Owner' = r.Owner
       /\ itState' = [itState EXCEPT ![i] = IF r.abort THEN "conflict" ELSE @]
       /\ acc' = [acc EXCEPT ![i] = IF ~r.abort /\ shouldLock(mflag) THEN @ \cup {N} ELSE @]
       /\ lastOp' = [op |-> op, it |-> i, node |-> N, flag |-> mflag,
                     ok |-> ~r.abort, pre |-> Owner[N], rel |-> {}]
  /\ UNCHANGED <<layout, notLock>>

\* An accessor that takes an edge iterator: it calls checkWrite(mflag) at most and
\* never acquire, so no marker is read or written whatever flag it is given.
\* N is the source node of the edge the iterator points at.
Unguarded(op, i, N, mflag) ==
  /\ itState[i] = "running"
  /\ lastOp' = [op |-> op, it |-> i, node |-> N, flag |-> mflag,
                ok |-> TRUE, pre |-> Owner[N], rel |-> {}]
  /\ UNCHANGED <<layout, Owner, itState, acc, notLock>>

\* ---- LC_CSR_Graph ----
LC_CSR_getData_Unchecked(i, N, mflag) == Access("getData", i, N, mflag, N, "NONE")
LC_CSR_getData(i, N, mflag) == Access("getData", i, N, mflag, N, mflag)
\* (the destination of getEdgeData(src, dst) plays no part in the locking)
LC_CSR_getEdgeData(i, src, mflag) == Access("getEdgeData", i, src, mflag, src, mflag)
LC_CSR_edge_begin(i, N, mflag) == Access("edge_begin", i, N, mflag, N, mflag)
LC_CSR_edge_end_NextNode(i, N, mflag) ==
  Access("edge_end", i, N, mflag, (N % NumNodes) + 1, mflag)
LC_CSR_edge_end(i, N, mflag) == Access("edge_end", i, N, mflag, N, mflag)
LC_CSR_getEdgeDataIt_Acquire(i, N, mflag) == Access("getEdgeDataIt", i, N, mflag, N, "ALL")
\* getEdgeData(edge_iterator ni, mflag = NONE) and getEdgeDst(edge_iterator ni)
LC_CSR_getEdgeDataIt(i, N, mflag) == Unguarded("getEdgeDataIt", i, N, mflag)
LC_CSR_getEdgeDst(i, N) == Unguarded("getEdgeDst", i, N, "NONE")

\* ---- LC_CSRInline_Graph ----
LC_CSRInline_getData_Unchecked(i, N, mflag) == Access("getData", i, N, mflag, N, "NONE")
LC_CSRInline_getData(i, N, mflag) == Access("getData", i, N, mflag, N, mflag)
LC_CSRInline_getEdgeData(i, src, mflag) == Access("getEdgeData", i, src, mflag, src, mflag)
LC_CSRInline_edge_begin(i, N, mflag) == Access("edge_begin", i, N, mflag, N, mflag)
LC_CSRInline_edge_end(i, N, mflag) == Access("edge_end", i, N, mflag, N, mflag)
LC_CSRInline_getEdgeDataIt(i, N, mflag) == Unguarded("getEdgeDataIt", i, N, mflag)
LC_CSRInline_getEdgeDst(i, N) == Unguarded("getEdgeDst", i, N, "NONE")

\* ---- LC_Linear_Graph ----
LC_Linear_getData_Unchecked(i, N, mflag) == Access("getData", i, N, mflag, N, "NONE")
LC_Linear_getData(i, N, mflag) == Access("getData", i, N, mflag, N, mflag)
LC_Linear_getEdgeData(i, src, mflag) == Access("getEdgeData", i, src, mflag, src, mflag)
LC_Linear_edge_begin(i, N, mflag) == Access("edge_begin", i, N, mflag, N, mflag)
LC_Linear_edge_end(i, N, mflag) == Access("edge_end", i, N, mflag, N, mflag)
LC_Linear_getEdgeDataIt(i, N, mflag) == Unguarded("getEdgeDataIt", i, N, mflag)
LC_Linear_getEdgeDst(i, N) == Unguarded("getEdgeDst", i, N, "NONE")

\* ---- LC_Linear2_Graph ----
LC_Linear2_getData_FirstNode(i, N, mflag) == Access("getData", i, N, mflag, 1, mflag)
LC_Linear2_getData(i, N, mflag) == Access("getData", i, N, mflag, N, mflag)
LC_Linear2_getEdgeData(i, src, mflag) == Access("getEdgeData", i, src, mflag, src, mflag)
LC_Linear2_edge_begin(i, N, mflag) == Access("edge_begin", i, N, mflag, N, mflag)
LC_Linear2_edge_end(i, N, mflag) == Access("edge_end", i, N, mflag, N, mflag)
LC_Linear2_getEdgeDataIt(i, N, mflag) == Unguarded("getEdgeDataIt", i, N, mflag)
LC_Linear2_getEdgeDst(i, N) == Unguarded("getEdgeDst", i, N, "NONE")

\* ---- GWrapped<T>::get on wrapped object W ----
GWrapped_get_Steal(i, W, m) ==
  /\ itState[i] = "running"
  /\ LET r == acquire(Owner, i, W, m) IN
       /\ Owner' = IF r.abort THEN [Owner EXCEPT ![W] = i] ELSE r.Owner
       /\ itState' = [itState EXCEPT ![i] = IF r.abort THEN "conflict" ELSE @]
       /\ acc' = [acc EXCEPT ![i] = IF ~r.abort /\ shouldLock(m) THEN @ \cup {W} ELSE @]
       /\ lastOp' = [op |-> "get", it |-> i, node |-> W, flag |-> m,
                     ok |-> ~r.abort, pre |-> Owner[W], rel |-> {}]
  /\ UNCHANGED <<layout, notLock>>
GWrapped_get_OtherObject(i, W, m) == Access("get", i, W, m, (W % NumNodes) + 1, m)
GWrapped_get(i, W, m) == Access("get", i, W, m, W, m)

\* ---- the scheduler's end of an iteration: every record it holds is released ----
ReleaseAll(own, i) == [L \in Lockables |-> IF own[L] = i THEN NoOwner ELSE own[L]]

Commit(i) ==
  /\ itState[i] = "running"
  /\ Owner' = ReleaseAll(Owner, i)
  /\ acc' = [acc EXCEPT ![i] = {}]
  /\ lastOp' = [op |-> "commit", it |-> i, node |-> 1, flag |-> "NONE",
                ok |-> TRUE, pre |-> NoOwner, rel |-> {L \in Lockables : Owner[L] = i}]
  /\ UNCHANGED <<layout, itState, notLock>>

Abort(i) ==
  /\ itState[i] = "conflict"
  /\ Owner' = ReleaseAll(Owner, i)
  /\ acc' = [acc EXCEPT ![i] = {}]
  /\ itState' = [itState EXCEPT ![i] = "running"]
  /\ lastOp' = [op |-> "abort", it |-> i, node |-> 1, flag |-> "NONE",
                ok |-> TRUE, pre |-> NoOwner, rel |-> {L \in Lockables : Owner[L] = i}]
  /\ UNCHANGED <<layout, notLock>>

LockInit ==
  /\ layout \in Containers
  /\ Owner = [L \in Lockables |-> NoOwner]
  /\ itState = [i \in Iters |-> "running"]
  /\ acc = [i \in Iters |-> {}]
  /\ lastOp = [op |-> "init", it |-> 1, node |-> 1, flag |-> "NONE",
               ok |-> TRUE, pre |-> NoOwner, rel |-> {}]

CSRStep ==
  /\ layout = "CSR"
  /\ \E i \in Iters, N \in Nodes, m \in Flags :
       \/ LC_CSR_getData(i, N, m)
       \/ LC_CSR_getEdgeData(i, N, m)
       \/ LC_CSR_edge_begin(i, N, m)
       \/ LC_CSR_edge_end(i, N, m)
       \/ LC_CSR_getEdgeDataIt(i, N, m)
       \/ LC_CSR_getEdgeDst(i, N)

CSRInlineStep ==
  /\ layout = "CSRInline"
  /\ \E i \in Iters, N \in Nodes, m \in Flags :
       \/ LC_CSRInline_getData(i, N, m)
       \/ LC_CSRInline_getEdgeData(i, N, m)
       \/ LC_CSRInline_edge_begin(i, N, m)
       \/ LC_CSRInline_edge_end(i, N, m)
       \/ LC_CSRInline_getEdgeDataIt(i, N, m)
       \/ LC_CSRInline_getEdgeDst(i, N)

LinearStep ==
  /\ layout = "Linear"
  /\ \E i \in Iters, N \in Nodes, m \in Flags :
       \/ LC_Linear_getData(i, N, m)
       \/ LC_Linear_getEdgeData(i, N, m)
       \/ LC_Linear_edge_begin(i, N, m)
       \/ LC_Linear_edge_end(i, N, m)
       \/ LC_Linear_getEdgeDataIt(i, N, m)
       \/ LC_Linear_getEdgeDst(i, N)

Linear2Step ==
  /\ layout = "Linear2"
  /\ \E i \in Iters, N \in Nodes, m \in Flags :
       \/ LC_Linear2_getData(i, N, m)
       \/ LC_Linear2_getEdgeData(i, N, m)
       \/ LC_Linear2_edge_begin(i, N, m)
       \/ LC_Linear2_edge_end(i, N, m)
       \/ LC_Linear2_getEdgeDataIt(i, N, m)
       \/ LC_Linear2_getEdgeDst(i, N)

WrappedStep ==
  /\ layout = "GWrapped"
  /\ \E i \in Iters, W \in Lockables, m \in Flags : GWrapped_get(i, W, m)
CommitStep == \E i \in Iters : Commit(i)
AbortStep == \E i \in Iters : Abort(i)

LockNext ==
  \/ CSRStep
  \/ CSRInlineStep
  \/ LinearStep
  \/ Linear2Step
  \/ WrappedStep
  \/ CommitStep
  \/ AbortStep

(***************************************************************************)
(* Termination detection (Termination.h).  localTermination() is defined   *)
(* in Termination.cpp, which is not among the sources; it is modelled from *)
(* the protocol description: a worker that holds the token and has no work *)
(* blackens the token if it is dirty, hands it to the next worker in ring  *)
(* order and becomes clean; worker 0 declares termination when the token   *)
(* comes back to it white and it is clean itself.                          *)
(***************************************************************************)
Workers == 0..(NumWorkers - 1)
\* data.getNext(): successor in ring order
RingNext(w) == (w + 1) % NumWorkers
\* cap of the step counters kept as history
HopCap == NumWorkers + 2
Bump(n) == IF n < HopCap THEN n + 1 ELSE n

\* the worker that holds the token, or NumWorkers when none does
Holder == IF \E w \in Workers : hasToken[w]
          THEN CHOOSE w \in Workers : hasToken[w] ELSE NumWorkers
\* the token has not yet left worker w in the current circuit
Ahead(w) == w = 0 \/ (Holder # 0 /\ w >= Holder)

\* TokenHolder::workHappened on worker w's holder
TokenHolder_workHappened_NoMark(pib, w) == pib
TokenHolder_workHappened(pib, w) == [pib EXCEPT ![w] = TRUE]

\* TerminationDetection::workHappened called on worker w: data.getLocal()->workHappened()
TD_workHappened_NoCall(pib, w) == pib
TD_workHappened(pib, w) == TokenHolder_workHappened(pib, w)

\* bookkeeping of a workHappened call by w (history only)
NoteCall(w) ==
  /\ calledAny' = (calledAny \/ ~globalTerm)
  /\ calledAhead' = (calledAhead \/ (~globalTerm /\ Ahead(w)))
  /\ hopsSinceAhead' = IF ~globalTerm /\ Ahead(w) THEN 0 ELSE hopsSinceAhead

\* TerminationDetection::initializeThread called by worker w
initializeThread_NoToken(w) ==
  /\ ~started[w]
  /\ started' = [started EXCEPT ![w] = TRUE]
  /\ IF w = 0
     THEN /\ tokenIsBlack' = [tokenIsBlack EXCEPT ![w] = TRUE]
          /\ UNCHANGED hasToken
     ELSE UNCHANGED <<hasToken, tokenIsBlack>>
  /\ UNCHANGED <<processIsBlack, globalTerm, work, quiet, whiteHops, calledAny,
                 calledAhead, hopsSinceAhead, quietHops, phase, notTerm>>
initializeThread(w) ==
  /\ ~started[w]
  /\ started' = [started EXCEPT ![w] = TRUE]
  /\ IF w = 0
     THEN /\ hasToken' = [hasToken EXCEPT ![w] = TRUE]
          /\ tokenIsBlack' = [tokenIsBlack EXCEPT ![w] = TRUE]
     ELSE UNCHANGED <<hasToken, tokenIsBlack>>
  /\ UNCHANGED <<processIsBlack, globalTerm, work, quiet, whiteHops, calledAny,
                 calledAhead, hopsSinceAhead, quietHops, phase, notTerm>>

\* TerminationDetection::globalTermination
globalTermination_Stale == TRUE
globalTermination == globalTerm

workHappened_Rearm(w) ==
  /\ started[w]
  /\ ~quiet
  /\ processIsBlack' = TD_workHappened(processIsBlack, w)
  /\ globalTerm' = FALSE
  /\ NoteCall(w)
  /\ UNCHANGED <<tokenIsBlack, hasToken, started, work, quiet, whiteHops,
                 quietHops, phase, notTerm>>
\* a worker calls workHappened() on its own, outside a producing path
workHappened(w) ==
  /\ started[w]
  /\ ~quiet
  /\ processIsBlack' = TD_workHappened(processIsBlack, w)
  /\ NoteCall(w)
  /\ UNCHANGED <<tokenIsBlack, hasToken, globalTerm, started, work, quiet, whiteHops,
                 quietHops, phase, notTerm>>

\* a worker that has work finishes one item
Consume(w) ==
  /\ started[w]
  /\ work[w] > 0
  /\ work' = [work EXCEPT ![w] = @ - 1]
  /\ UNCHANGED <<tokenIsBlack, hasToken, processIsBlack, globalTerm, started, quiet,
                 whiteHops, calledAny, calledAhead, hopsSinceAhead, quietHops, phase, notTerm>>

\* a worker that has work enqueues a new item for worker u: it calls
\* workHappened() and then makes the item visible
Produce(w, u) ==
  /\ started[w]
  /\ work[w] > 0
  /\ work[u] < MaxWork
  /\ processIsBlack' = TD_workHappened(processIsBlack, w)
  /\ NoteCall(w)
  /\ work' = [work EXCEPT ![u] = @ + 1]
  /\ UNCHANGED <<tokenIsBlack, hasToken, globalTerm, started, quiet, whiteHops,
                 quietHops, phase, notTerm>>

\* the producing phase is over: nobody has work and nobody calls workHappened again
Quiesce ==
  /\ ~quiet
  /\ \A w \in Workers : started[w] /\ work[w] = 0
  /\ quiet' = TRUE
  /\ quietHops' = 0
  /\ UNCHANGED <<tokenIsBlack, hasToken, processIsBlack, globalTerm, started, work,
                 whiteHops, calledAny, calledAhead, hopsSinceAhead, phase, notTerm>>

PassToken_KeepDirty(w, taint) ==
  /\ hasToken' = [[hasToken EXCEPT ![w] = FALSE] EXCEPT ![RingNext(w)] = TRUE]
  /\ tokenIsBlack' = [[tokenIsBlack EXCEPT ![w] = FALSE] EXCEPT ![RingNext(w)] = taint]
  /\ processIsBlack' = processIsBlack
\* hand the token from w on to the next worker with colour taint
PassToken(w, taint) ==
  /\ hasToken' = [[hasToken EXCEPT ![w] = FALSE] EXCEPT ![RingNext(w)] = TRUE]
  /\ tokenIsBlack' = [[tokenIsBlack EXCEPT ![w] = FALSE] EXCEPT ![RingNext(w)] = taint]
  /\ processIsBlack' = [processIsBlack EXCEPT ![w] = FALSE]

\* TerminationDetection::localTermination called by worker w, which has no work
\* (the history variables record the phase up to the declaration of termination)
localTermination(w) ==
  /\ started[w]
  /\ work[w] = 0
  /\ hasToken[w]
  /\ hopsSinceAhead' = IF globalTerm THEN hopsSinceAhead ELSE Bump(hopsSinceAhead)
  /\ quietHops' = IF quiet /\ ~globalTerm THEN Bump(quietHops) ELSE quietHops
  /\ IF w = 0
     THEN LET failed == tokenIsBlack[w] \/ processIsBlack[w] IN
          IF ~failed
          THEN /\ globalTerm' = TRUE
               /\ tokenIsBlack' = [tokenIsBlack EXCEPT ![w] = FALSE]
               /\ processIsBlack' = [processIsBlack EXCEPT ![w] = FALSE]
               /\ UNCHANGED <<hasToken, whiteHops, calledAny, calledAhead>>
          ELSE /\ PassToken(w, FALSE)
               /\ whiteHops' = IF globalTerm THEN whiteHops ELSE 1
               /\ calledAny' = (globalTerm /\ calledAny)
               /\ calledAhead' = (globalTerm /\ calledAhead)
               /\ UNCHANGED globalTerm
     ELSE LET taint == processIsBlack[w] \/ tokenIsBlack[w] IN
          /\ PassToken(w, taint)
          /\ whiteHops' = IF globalTerm THEN whiteHops
                          ELSE IF taint THEN 0 ELSE whiteHops + 1
          /\ UNCHANGED <<globalTerm, calledAny, calledAhead>>
  /\ UNCHANGED <<started, work, quiet, phase, notTerm>>

\* TerminationDetection::reset, called between two phases (the previous phase has
\* been declared terminated): termination is withdrawn and the token state of the
\* workers is the initial one again, worker 0 holding a black token
reset ==
  /\ globalTerm
  /\ globalTerm' = FALSE
  /\ hasToken' = [w \in Workers |-> w = 0]
  /\ tokenIsBlack' = [w \in Workers |-> w = 0]
  /\ UNCHANGED <<processIsBlack, started>>

\* the scheduler starts a further phase: it resets the detector and fills the
\* workers' queues with the initial work of the phase
NextPhase ==
  /\ phase < MaxResets
  /\ \A w \in Workers : started[w] /\ work[w] = 0
  /\ reset
  /\ phase' = phase + 1
  /\ work' \in [Workers -> 0..MaxWork]
  /\ quiet' = FALSE
  /\ whiteHops' = 0
  /\ calledAny' = FALSE
  /\ calledAhead' = FALSE
  /\ hopsSinceAhead' = HopCap
  /\ quietHops' = 0
  /\ UNCHANGED notTerm

TermInit ==
  /\ tokenIsBlack = [w \in Workers |-> FALSE]
  /\ hasToken = [w \in Workers |-> FALSE]
  /\ processIsBlack = [w \in Workers |-> TRUE]
  /\ globalTerm = FALSE
  /\ started = [w \in Workers |-> FALSE]
  /\ work \in [Workers -> 0..MaxWork]
  /\ quiet = FALSE
  /\ whiteHops = 0
  /\ calledAny = FALSE
  /\ calledAhead = FALSE
  /\ hopsSinceAhead = HopCap
  /\ quietHops = 0
  /\ phase = 0

\* the detector when no phase runs (used by the specifications of the other components)
TermIdle ==
  /\ TermInit
  /\ work = [w \in Workers |-> 0]

InitializeStep == \E w \in Workers : initializeThread(w)
WorkHappenedStep == \E w \in Workers : workHappened(w)
ConsumeStep == \E w \in Workers : Consume(w)
ProduceStep == \E w, u \in Workers : Produce(w, u)
LocalTerminationStep == \E w \in Workers : localTermination(w)

TermNext ==
  \/ InitializeStep
  \/ WorkHappenedStep
  \/ ConsumeStep
  \/ ProduceStep
  \/ Quiesce
  \/ LocalTerminationStep
  \/ NextPhase

(***************************************************************************)
(* Insert bag (InsBag.h)                                                   *)
(***************************************************************************)
\* sizeof(header): four pointers
SizeofHeader == 32
\* the null header pointer
NullPage == 0
\* content of a slot in which no element has been constructed
Raw == 0
Values == 1..MaxVal
\* heads.size()
HeadsSize == NumWorkers

\* galois_insert_bag::newHeader: the header written at the start of a fresh page;
\* dbegin, dend, dlast are indexes into the page seen as an array of T
newHeader ==
  LET offset == IF SizeofT < SizeofHeader THEN 1 + (SizeofHeader \div SizeofT) ELSE 1
      dlast == PageSize \div SizeofT
  IN [next |-> NullPage, dbegin |-> offset, dend |-> offset, dlast |-> dlast,
      data |-> [k \in offset..(dlast - 1) |-> Raw]]

\* galois_insert_bag::insHeader called by worker w with fresh header h:
\* h->next = H; H = h
insHeader_NoLink(hd, hs, w, h) ==
  [heads |-> [hd EXCEPT ![w] = h], hdr |-> hs]
insHeader_Worker0(hd, hs, w, h) ==
  [heads |-> [hd EXCEPT ![0] = h], hdr |-> [hs EXCEPT ![h].next = hd[0]]]
insHeader(hd, hs, w, h) ==
  [heads |-> [hd EXCEPT ![w] = h], hdr |-> [hs EXCEPT ![h].next = hd[w]]]

\* galois_insert_bag::push(val) called by worker w
push(w, val) ==
  /\ bagAlive
  /\ nPush < MaxPush
  /\ LET H == heads[w]
         need == H = NullPage \/ hdr[H].dend = hdr[H].dlast
         h == Len(hdr) + 1
         B == IF need THEN insHeader(heads, Append(hdr, newHeader), w, h)
                      ELSE [heads |-> heads, hdr |-> hdr]
         H2 == IF need THEN h ELSE H
         rv == B.hdr[H2].dend
     IN /\ heads' = B.heads
        /\ hdr' = [B.hdr EXCEPT ![H2].data[rv] = val, ![H2].dend = @ + 1]
        /\ pageFrees' = IF need THEN Append(pageFrees, 0) ELSE pageFrees
        /\ dtorCalls' = IF need THEN Append(dtorCalls, [k \in DOMAIN newHeader.data |-> 0])
                                ELSE dtorCalls
  /\ log' = [log EXCEPT ![w] = Append(@, val)]
  /\ nPush' = nPush + 1
  /\ bagOp' = [op |-> "push", w |-> w]
  /\ UNCHANGED <<bagAlive, notBag>>

\* galois_insert_bag::destruct: for every worker, the head segment of its list is
\* unlinked, its elements are destroyed and the page is freed
destruct ==
  LET hit == {heads[x] : x \in {y \in 0..(HeadsSize - 1) : heads[y] # NullPage}}
  IN [heads |-> [x \in DOMAIN heads |->
                   IF heads[x] # NullPage THEN hdr[heads[x]].next ELSE heads[x]],
      pageFrees |-> [p \in DOMAIN pageFrees |->
                   IF p \in hit THEN pageFrees[p] + 1 ELSE pageFrees[p]],
      dtorCalls |-> [p \in DOMAIN dtorCalls |->
                   [k \in DOMAIN dtorCalls[p] |->
                      IF p \in hit /\ k >= hdr[p].dbegin /\ k < hdr[p].dend
                      THEN dtorCalls[p][k] + 1 ELSE dtorCalls[p][k]]]]

\* galois_insert_bag::clear
clear ==
  /\ bagAlive
  /\ LET d == destruct IN
       /\ heads' = [i \in DOMAIN d.heads |-> NullPage]
       /\ pageFrees' = d.pageFrees
       /\ dtorCalls' = d.dtorCalls
  /\ log' = [w \in DOMAIN log |-> <<>>]
  /\ bagOp' = [op |-> "clear", w |-> 0]
  /\ UNCHANGED <<hdr, nPush, bagAlive, notBag>>

\* galois_insert_bag::~galois_insert_bag
destroyBag ==
  /\ bagAlive
  /\ LET d == destruct IN
       /\ heads' = d.heads
       /\ pageFrees' = d.pageFrees
       /\ dtorCalls' = d.dtorCalls
  /\ bagAlive' = FALSE
  /\ bagOp' = [op |-> "destroy", w |-> 0]
  /\ UNCHANGED <<hdr, log, nPush, notBag>>

\* ---- galois_insert_bag::iterator: thr, p, v (v is a slot index of page p) ----
\* init_thread: the iterator after the call and the value returned
init_thread(it) ==
  LET p == IF it.thr < HeadsSize THEN heads[it.thr] ELSE NullPage
      v == IF p # NullPage THEN hdr[p].dbegin ELSE 0
  IN [it |-> [thr |-> it.thr, p |-> p, v |-> v], ret |-> p # NullPage]

advance_local(it) ==
  IF it.p # NullPage
  THEN [it |-> [it EXCEPT !.v = @ + 1], ret |-> it.v + 1 # hdr[it.p].dend]
  ELSE [it |-> it, ret |-> FALSE]

advance_chunk(it) ==
  IF it.p # NullPage
  THEN LET p == hdr[it.p].next
           v == IF p # NullPage THEN hdr[p].dbegin ELSE 0
       IN [it |-> [thr |-> it.thr, p |-> p, v |-> v], ret |-> p # NullPage]
  ELSE [it |-> it, ret |-> FALSE]

RECURSIVE advance_thread(_)
advance_thread(it) ==
  IF it.thr < HeadsSize
  THEN LET r == init_thread([it EXCEPT !.thr = @ + 1])
       IN IF r.ret THEN r.it ELSE advance_thread(r.it)
  ELSE it

advance_SkipChunk(it) ==
  LET a == advance_local(it) IN
  IF a.ret THEN a.it ELSE advance_thread(a.it)
advance(it) ==
  LET a == advance_local(it) IN
  IF a.ret THEN a.it
  ELSE LET c == advance_chunk(a.it) IN
       IF c.ret THEN c.it ELSE advance_thread(c.it)

\* iterator(hd, thr)
Iterator(thr) ==
  LET r == init_thread([thr |-> thr, p |-> NullPage, v |-> 0])
  IN IF r.ret THEN r.it ELSE advance_thread(r.it)

begin == Iterator(0)
end == Iterator(HeadsSize)
local_begin(w) == Iterator(w)
local_end(w) == Iterator(w + 1)

\* operator*: the slot the iterator points at
Deref(it) == hdr[it.p].data[it.v]

\* the values seen by  for (it = from; it != to; ++it) *it ; NotEnded marks a
\* walk that did not arrive at the end iterator within fuel steps
NotEnded == 0 - 1
RECURSIVE Walk(_, _, _)
Walk(it, to, fuel) ==
  IF it = to THEN <<>>
  ELSE IF fuel = 0 \/ it.p = NullPage THEN <<NotEnded>>
  ELSE <<Deref(it)>> \o Walk(advance(it), to, fuel - 1)

IterSeq == Walk(begin, end, MaxPush + 1)

BagInit ==
  /\ heads = [w \in 0..(HeadsSize - 1) |-> NullPage]
  /\ hdr = <<>>
  /\ pageFrees = <<>>
  /\ dtorCalls = <<>>
  /\ log = [w \in 0..(HeadsSize - 1) |-> <<>>]
  /\ nPush = 0
  /\ bagAlive = TRUE
  /\ bagOp = [op |-> "init", w |-> 0]

BagIdle == BagInit

PushStep == \E w \in 0..(HeadsSize - 1), val \in Values : push(w, val)

BagNext ==
  \/ PushStep
  \/ clear
  \/ destroyBag

(***************************************************************************)
(* On-disk graph format and loader (FileGraph.cpp).  Memory and files are  *)
(* arrays of 32-bit words; a pointer into a mapping is the index of a word *)
(* of it (its byte offset divided by WordBytes).  The host is little-      *)
(* endian; a uint64_t takes two words, low word first.                     *)
(***************************************************************************)
\* sizeof(uint32_t)
WordBytes == 4
\* words of a uint64_t
Words64 == 2
\* words of the four header fields version, sizeEdgeTy, numNodes, numEdges
HeaderWords == 8
\* the version the loader knows
FormatVersion == 1
\* result of reading a word that lies outside the mapping
OutOfMapping == 0 - 1
\* ~static_cast<uint64_t>(0), returned by getEdgeIdx when there is no such edge
NoEdge == 0 - 1
\* the descriptor open() returns; a FileGraph that opened no file keeps masterFD 0
OpenedFD == 3

FileNames == {"in", "out"}
\* content of a file that does not exist
NoFile == <<>>
FGs == 1..2

\* ---- the images the loader is given ----
RECURSIVE SumTo(_, _)
SumTo(f, k) == IF k = 0 THEN 0 ELSE f[k] + SumTo(f, k - 1)

\* a graph: number of nodes, out-degree of every node, destination of every edge
\* (node ids are 0-based, deg and dst are indexed from 1), payload size in bytes,
\* and the payload of edge k, which is seed + k
AllInputGraphs ==
  UNION {
    { [n |-> n, e |-> e, deg |-> deg, dst |-> dst, sz |-> sz, seed |-> seed] :
        deg \in {d \in [1..n -> 0..e] : SumTo(d, n) = e},
        dst \in [1..e -> 0..(n - 1)],
        sz \in {0, WordBytes},
        seed \in 1..MaxPay } :
    n \in 0..MaxFNodes, e \in 0..MaxFEdges }
\* (a graph without payload is taken once, with seed 1)
InputGraphs == {G \in AllInputGraphs : (G.sz = 0 \/ G.e = 0) => G.seed = 1}

\* the graph of the example scenario: 4 nodes, edges (0,1), (0,2), (1,2), (2,3)
ExampleGraph ==
  [n |-> 4, e |-> 4, deg |-> <<2, 1, 1, 0>>, dst |-> <<1, 2, 2, 3>>,
   sz |-> WordBytes, seed |-> 1]

\* adjacency of node i (0-based) of input graph G: its destinations in stored order
AdjOf(G, i) ==
  [k \in 1..G.deg[i + 1] |-> G.dst[SumTo(G.deg, i) + k]]
PayOf(G, k) == IF G.sz = 0 THEN 0 ELSE G.seed + k

U64(v) == <<v, 0>>
RECURSIVE OffsetWords(_, _)
OffsetWords(G, i) ==
  IF i = 0 THEN <<>> ELSE OffsetWords(G, i - 1) \o U64(SumTo(G.deg, i))

\* the file of graph G in format V1: version, EdgeType size, numNodes, numEdges,
\* outindexs[numNodes], outedges[numEdges], padding to 64 bits, EdgeType[numEdges]
ImageOf(G) ==
  U64(FormatVersion) \o U64(G.sz) \o U64(G.n) \o U64(G.e)
    \o OffsetWords(G, G.n)
    \o [k \in 1..G.e |-> G.dst[k]]
    \o (IF G.e % 2 = 1 THEN <<0>> ELSE <<>>)
    \o (IF G.sz = 0 THEN <<>> ELSE [k \in 1..G.e |-> PayOf(G, k)])

\* ways in which a file can be malformed
Damages == {"none", "version", "offsets", "count", "truncated"}
CanDamage(G, bad) ==
  CASE bad = "offsets" -> G.n >= 2
    [] bad = "truncated" -> G.e >= 1
    [] OTHER -> TRUE
Damaged(G, bad) ==
  LET img == ImageOf(G) IN
  CASE bad = "version" -> [img EXCEPT ![1] = FormatVersion + 1]
    [] bad = "offsets" ->
         \* the first entry of the offset table is larger than the second
         [img EXCEPT ![HeaderWords + 1] = img[HeaderWords + Words64 + 1] + 1]
    [] bad = "count" ->
         \* numEdges says one edge more than the tables hold
         [img EXCEPT ![Words64 * 3 + 1] = G.e + 1]
    [] bad = "truncated" -> SubSeq(img, 1, Len(img) - 1)
    [] OTHER -> img

\* ---- reading the mapping ----
le64toh(lo, hi) == lo + (hi * 65536) * 65536
le32toh(w) == w
Word(m, p) == IF p >= 0 /\ p < Len(m) THEN m[p + 1] ELSE OutOfMapping
Read64(m, p) ==
  IF Word(m, p) = OutOfMapping \/ Word(m, p + 1) = OutOfMapping THEN OutOfMapping
  ELSE le64toh(Word(m, p), Word(m, p + 1))

\* FileGraph::FileGraph
FileGraph_FileGraph ==
  [masterMapping |-> <<>>, masterLength |-> 0, masterFD |-> 0,
   outIdx |-> 0, outs |-> 0, edgeData |-> 0, numEdges |-> 0, numNodes |-> 0,
   sizeEdgeTy |-> 0, loaded |-> FALSE]

FileGraph_parse_NoPadding(m) ==
  LET numNodes == Read64(m, Words64 * 2)
      numEdges == Read64(m, Words64 * 3)
      outIdx == HeaderWords
      outs == outIdx + Words64 * numNodes
      fptr32 == outs + numEdges
  IN [version |-> Read64(m, 0), sizeEdgeTy |-> Read64(m, Words64),
      numNodes |-> numNodes, numEdges |-> numEdges,
      outIdx |-> outIdx, outs |-> outs,
      edgeData |-> fptr32]
\* FileGraph::parse(m): the fields it assigns (and the version it reads)
FileGraph_parse(m) ==
  LET numNodes == Read64(m, Words64 * 2)
      numEdges == Read64(m, Words64 * 3)
      outIdx == HeaderWords
      outs == outIdx + Words64 * numNodes
      fptr32 == outs + numEdges
  IN [version |-> Read64(m, 0), sizeEdgeTy |-> Read64(m, Words64),
      numNodes |-> numNodes, numEdges |-> numEdges,
      outIdx |-> outIdx, outs |-> outs,
      edgeData |-> IF numEdges % 2 = 1 THEN fptr32 + 1 ELSE fptr32]

\* the object after parse(m) with masterMapping = m, masterLength = len, masterFD = fd
Parsed(m, len, fd) ==
  LET p == FileGraph_parse(m) IN
  [masterMapping |-> m, masterLength |-> len, masterFD |-> fd,
   outIdx |-> p.outIdx, outs |-> p.outs, edgeData |-> p.edgeData,
   numEdges |-> p.numEdges, numNodes |-> p.numNodes, sizeEdgeTy |-> p.sizeEdgeTy,
   loaded |-> TRUE]

\* ---- accessors of a loaded FileGraph g ----
FileGraph_size(g) == g.numNodes
FileGraph_sizeEdges(g) == g.numEdges
\* outIdx[k]
OutIdx(g, k) == Read64(g.masterMapping, g.outIdx + Words64 * k)
\* the index, relative to outs, of the word a uint32_t* into outs points at
FileGraph_raw_neighbor_begin_FromOwnEntry(g, N) == OutIdx(g, N)
FileGraph_raw_neighbor_begin(g, N) == IF N = 0 THEN 0 ELSE OutIdx(g, N - 1)
FileGraph_raw_neighbor_end(g, N) == OutIdx(g, N)
FileGraph_neighborsSize(g, N) ==
  FileGraph_raw_neighbor_end(g, N) - FileGraph_raw_neighbor_begin(g, N)
FileGraph_edge_begin(g, N) == IF N = 0 THEN 0 ELSE OutIdx(g, N - 1)
FileGraph_edge_end(g, N) == OutIdx(g, N)
FileGraph_getEdgeDst(g, it) == le32toh(Word(g.masterMapping, g.outs + it))
\* first edge of src that leads to dst (the loop walks from begin up to end)
FileGraph_getEdgeIdx(g, src, dst) ==
  LET hits == {ii \in FileGraph_raw_neighbor_begin(g, src)
                        ..(FileGraph_raw_neighbor_end(g, src) - 1) :
                 le32toh(Word(g.masterMapping, g.outs + ii)) = dst}
  IN IF hits = {} THEN NoEdge ELSE CHOOSE ii \in hits : \A jj \in hits : ii <= jj
FileGraph_hasNeighbor(g, N1, N2) == FileGraph_getEdgeIdx(g, N1, N2) # NoEdge
FileGraph_containsNode(g, n) == n < g.numNodes
\* getEdgeData<EdgeTy>(it): element it of the payload table seen as EdgeTy[]
FileGraph_getEdgeData(g, it) ==
  IF g.sizeEdgeTy = 0 THEN 0
  ELSE Word(g.masterMapping, g.edgeData + it * (g.sizeEdgeTy \div WordBytes))

\* destinations of node N in the order edge_begin .. edge_end yields them
FileGraph_edges(g, N) ==
  [k \in 1..(FileGraph_edge_end(g, N) - FileGraph_edge_begin(g, N)) |->
     FileGraph_getEdgeDst(g, FileGraph_edge_begin(g, N) + k - 1)]

\* ---- operations ----
Running == fgOp.out # "abort"

\* FileGraph::structureFromMem(mem, len, clone) on object k, mem being the image
\* the caller holds; with clone the bytes are copied into a private mapping
FileGraph_structureFromMem(k, clone) ==
  /\ Running
  /\ ~fg[k].loaded
  /\ os.alive[k]
  /\ disk["in"] # NoFile
  /\ LET m == disk["in"]
         len == Len(m) * WordBytes
     IN \/ \* assert(version == 1) in a build with assertions
           /\ FileGraph_parse(m).version # FormatVersion
           /\ fgOp' = [op |-> "structureFromMem", g |-> k, file |-> "in", clone |-> clone, out |-> "abort"]
           /\ UNCHANGED <<fg, os>>
        \/ \* version 1, or a build with NDEBUG
           /\ fg' = [fg EXCEPT ![k] = Parsed(m, len, 0)]
           \* masterMapping is the private copy, or the caller's buffer itself
           /\ os' = [os EXCEPT !.region[k] = IF clone THEN "private" ELSE "caller"]
           /\ fgOp' = [op |-> "structureFromMem", g |-> k, file |-> "in", clone |-> clone, out |-> "ok"]
  /\ UNCHANGED <<disk, input, lc, notFg>>

\* FileGraph::structureFromFile(filename) on object k
FileGraph_structureFromFile(k, filename) ==
  /\ Running
  /\ ~fg[k].loaded
  /\ os.alive[k]
  /\ IF disk[filename] = NoFile
     THEN \* open or mmap fails: perror and abort
          /\ fgOp' = [op |-> "structureFromFile", g |-> k, file |-> filename, clone |-> FALSE, out |-> "abort"]
          /\ UNCHANGED <<fg, os>>
     ELSE LET m == disk[filename]
              len == Len(m) * WordBytes
          IN \/ \* assert(version == 1) in a build with assertions
                /\ FileGraph_parse(m).version # FormatVersion
                /\ fgOp' = [op |-> "structureFromFile", g |-> k, file |-> filename, clone |-> FALSE, out |-> "abort"]
                /\ UNCHANGED <<fg, os>>
             \/ \* version 1, or a build with NDEBUG
                /\ fg' = [fg EXCEPT ![k] = Parsed(m, len, OpenedFD)]
                \* masterMapping is the mapping of the file, masterFD is left open
                /\ os' = [os EXCEPT !.region[k] = "file", !.fd[k] = "open"]
                /\ fgOp' = [op |-> "structureFromFile", g |-> k, file |-> filename, clone |-> FALSE, out |-> "ok"]
  /\ UNCHANGED <<disk, input, lc, notFg>>

\* FileGraph::structureToFile(file) on object k: one write of masterLength bytes
\* from masterMapping (the write is taken to transfer all of them)
FileGraph_structureToFile_ShortWrite(k, file) ==
  /\ Running
  /\ fg[k].loaded
  /\ os.alive[k]
  /\ disk[file] = NoFile
  /\ disk' = [disk EXCEPT ![file] = SubSeq(fg[k].masterMapping, 1, (fg[k].masterLength \div WordBytes) - 1)]
  /\ fgOp' = [op |-> "structureToFile", g |-> k, file |-> file, clone |-> FALSE, out |-> "ok"]
  /\ UNCHANGED <<fg, input, lc, os, notFg>>
FileGraph_structureToFile(k, file) ==
  /\ Running
  /\ fg[k].loaded
  /\ os.alive[k]
  /\ disk[file] = NoFile
  /\ disk' = [disk EXCEPT ![file] =
                SubSeq(fg[k].masterMapping, 1, fg[k].masterLength \div WordBytes)]
  /\ fgOp' = [op |-> "structureToFile", g |-> k, file |-> file, clone |-> FALSE, out |-> "ok"]
  /\ UNCHANGED <<fg, input, lc, os, notFg>>

\* no FileGraph has mapped or opened anything; the caller holds the image in a buffer
OsInit ==
  [caller |-> "mapped",
   alive |-> [k \in FGs |-> TRUE],
   region |-> [k \in FGs |-> "none"],
   fd |-> [k \in FGs |-> "none"],
   munmap |-> <<>>,
   close |-> <<>>]

\* the file "in" holds the image of some graph, intact or damaged; "out" does not exist
FgInit ==
  /\ input \in { [g |-> G, bad |-> bad] :
                   G \in InputGraphs \cup {ExampleGraph},
                   bad \in Damages }
  /\ CanDamage(input.g, input.bad)
  /\ disk = [f \in FileNames |-> IF f = "in" THEN Damaged(input.g, input.bad) ELSE NoFile]
  /\ fg = [k \in FGs |-> FileGraph_FileGraph]
  /\ fgOp = [op |-> "init", g |-> 1, file |-> "in", clone |-> FALSE, out |-> "ok"]
  /\ lc = [kind |-> "none"]
  /\ os = OsInit

\* the loader when it is not used
FgIdle ==
  /\ input = [g |-> ExampleGraph, bad |-> "none"]
  /\ disk = [f \in FileNames |-> IF f = "in" THEN ImageOf(ExampleGraph) ELSE NoFile]
  /\ fg = [k \in FGs |-> FileGraph_FileGraph]
  /\ fgOp = [op |-> "init", g |-> 1, file |-> "in", clone |-> FALSE, out |-> "ok"]
  /\ lc = [kind |-> "none"]
  /\ os = OsInit

\* FileGraph::clone(other) on object k: structureFromMem(other.masterMapping,
\* other.masterLength, true)
FileGraph_clone(k, other) ==
  /\ Running
  /\ k # other
  /\ ~fg[k].loaded /\ os.alive[k]
  /\ fg[other].loaded /\ os.alive[other]
  /\ fg' = [fg EXCEPT ![k] = Parsed(fg[other].masterMapping, fg[other].masterLength, 0)]
  /\ os' = [os EXCEPT !.region[k] = "private"]
  /\ fgOp' = [op |-> "clone", g |-> k, file |-> "in", clone |-> TRUE, out |-> "ok"]
  /\ UNCHANGED <<disk, input, lc, notFg>>

\* FileGraph::~FileGraph on object k: munmap(masterMapping, masterLength) when
\* masterMapping is not null, close(masterFD) when masterFD is not 0.  munmap of
\* the caller's buffer takes it away from the caller when the buffer is a
\* page-aligned mapping, and fails with EINVAL when it is not
FileGraph_destructor(k) ==
  /\ Running
  /\ os.alive[k]
  /\ LET unmaps == fg[k].loaded
         closes == fg[k].masterFD # 0
         after == [os EXCEPT !.alive[k] = FALSE,
                             !.munmap = IF unmaps THEN Append(@, [g |-> k, region |-> os.region[k]])
                                        ELSE @,
                             !.close = IF closes THEN Append(@, [g |-> k, fd |-> fg[k].masterFD])
                                       ELSE @,
                             !.fd[k] = IF closes THEN "closed" ELSE @]
     IN IF unmaps /\ os.region[k] = "caller"
        THEN \E aligned \in BOOLEAN :
               os' = [after EXCEPT !.caller = IF aligned THEN "unmapped" ELSE @]
        ELSE os' = after
  /\ fgOp' = [op |-> "destructor", g |-> k, file |-> "in", clone |-> FALSE, out |-> "ok"]
  /\ UNCHANGED <<fg, disk, input, lc, notFg>>

FromMemStep == \E clone \in BOOLEAN : FileGraph_structureFromMem(1, clone)
FromFileStep == \E k \in FGs, f \in FileNames : FileGraph_structureFromFile(k, f)
ToFileStep == FileGraph_structureToFile(1, "out")

FgNext ==
  \/ FromMemStep
  \/ FromFileStep
  \/ ToFileStep

CloneStep == \E k, other \in FGs : FileGraph_clone(k, other)
DestructorStep == \E k \in FGs : FileGraph_destructor(k)
OwnNext ==
  \/ FromMemStep
  \/ FromFileStep
  \/ CloneStep
  \/ DestructorStep

(***************************************************************************)
(* In-memory graph layouts built from a FileGraph (LCGraph.h).  An address *)
(* is a byte offset from the start of the arena it lies in.                *)
(***************************************************************************)
\* sizeof(Header) of LC_Linear2_Graph: two pointers and a size_t
SizeofChunkHeader == 24
\* no graph has been built
NoGraph == [kind |-> "none"]
\* an entry of nodes[] that no worker has written
Unwritten == <<0 - 1, 0>>

\* the FileGraph that structureFromFile(fname) declares and loads
LocalFileGraph(fname) == Parsed(disk[fname], Len(disk[fname]) * WordBytes, OpenedFD)
\* element k of edgeid_begin() .. edgeid_end() and of nodeid_begin() .. nodeid_end()
FileGraph_edgeid(g, k) == OutIdx(g, k)
FileGraph_nodeid(g, k) == le32toh(Word(g.masterMapping, g.outs + k))
\* the position in outs of the k-th element of neighbor_begin(N) .. neighbor_end(N)
FileGraph_neighbor(g, N, k) == FileGraph_raw_neighbor_begin(g, N) + k

\* ---- LC_CSR_Graph ----
\* the object after structureFromFile
LC_CSR_Graph(g) ==
  [kind |-> "CSR",
   numNodes |-> FileGraph_size(g),
   numEdges |-> FileGraph_sizeEdges(g),
   EdgeIndData |-> [k \in 0..(FileGraph_size(g) - 1) |-> FileGraph_edgeid(g, k)],
   EdgeDst |-> [k \in 0..(FileGraph_sizeEdges(g) - 1) |-> FileGraph_nodeid(g, k)],
   EdgeData |-> [k \in 0..(FileGraph_sizeEdges(g) - 1) |-> FileGraph_getEdgeData(g, k)]]
LC_CSR_raw_neighbor_begin(L, N) == IF N = 0 THEN 0 ELSE L.EdgeIndData[N - 1]
LC_CSR_raw_neighbor_end(L, N) == L.EdgeIndData[N]
LC_CSR_getEdgeIdx(L, src, dst) ==
  LET hits == {ii \in LC_CSR_raw_neighbor_begin(L, src)
                        ..(LC_CSR_raw_neighbor_end(L, src) - 1) : L.EdgeDst[ii] = dst}
  IN IF hits = {} THEN NoEdge ELSE CHOOSE ii \in hits : \A jj \in hits : ii <= jj
LC_CSR_hasNeighbor(L, src, dst) == LC_CSR_getEdgeIdx(L, src, dst) # NoEdge
\* the node handles begin() .. end() yields, by node id
LC_CSR_node(L, id) == id
\* getEdgeDst of every edge iterator from edge_begin(N) up to edge_end(N)
LC_CSR_edges(L, N) ==
  [k \in 1..(LC_CSR_raw_neighbor_end(L, N) - LC_CSR_raw_neighbor_begin(L, N)) |->
     L.EdgeDst[LC_CSR_raw_neighbor_begin(L, N) + k - 1]]

\* ---- LC_CSRInline_Graph: a node handle is the index of its NodeInfo in NodeData,
\* an edge iterator the index of an EdgeInfo in EdgeData ----
\* curEdge when the layout loop reaches node n
RECURSIVE LC_CSRInline_curEdge(_, _)
LC_CSRInline_curEdge(g, n) ==
  IF n = 0 THEN 0
  ELSE LC_CSRInline_curEdge(g, n - 1) + FileGraph_neighborsSize(g, n - 1)
\* curEdge->dst = node_ids[*ni] in the loop over the neighbours ni of node ii
LC_CSRInline_dst_OfSource(node_ids, ii, ni) == node_ids[ii]
LC_CSRInline_dst(node_ids, ii, ni) == node_ids[ni]
LC_CSRInline_Graph(g) ==
  LET N == FileGraph_size(g)
      E == FileGraph_sizeEdges(g)
      node_ids == [k \in 0..(N - 1) |-> k]
      src(x) == CHOOSE n \in 0..(N - 1) :
                  LC_CSRInline_curEdge(g, n) <= x /\ x < LC_CSRInline_curEdge(g, n + 1)
      pos(x) == FileGraph_neighbor(g, src(x), x - LC_CSRInline_curEdge(g, src(x)))
  IN [kind |-> "CSRInline",
      numNodes |-> N,
      numEdges |-> E,
      endNode |-> N,
      NodeData |-> [n \in 0..(N - 1) |->
                      [edgebegin |-> LC_CSRInline_curEdge(g, n),
                       edgeend |-> LC_CSRInline_curEdge(g, n + 1)]],
      EdgeData |-> [x \in 0..(LC_CSRInline_curEdge(g, N) - 1) |->
                      [dst |-> LC_CSRInline_dst(node_ids, src(x), FileGraph_nodeid(g, pos(x))),
                       data |-> FileGraph_getEdgeData(g, pos(x))]]]
LC_CSRInline_node(L, id) == id
LC_CSRInline_edges(L, N) ==
  [k \in 1..(L.NodeData[N].edgeend - L.NodeData[N].edgebegin) |->
     L.EdgeData[L.NodeData[N].edgebegin + k - 1].dst]

\* ---- LC_Linear_Graph and LC_Linear2_Graph: NodeInfo::edgeBegin, edgeEnd, next ----
NodeInfo_edgeBegin(a) == a + SizeofNodeInfo
NodeInfo_edgeEnd(a, numEdges) == NodeInfo_edgeBegin(a) + numEdges * SizeofEdgeInfo
\* while (ni < ei) ++ni
RECURSIVE StepToward(_, _)
StepToward(ni, ei) == IF ni < ei THEN StepToward(ni + SizeofNodeInfo, ei) ELSE ni
NodeInfo_next_NoEdges(a, numEdges) == a + SizeofNodeInfo
NodeInfo_next(a, numEdges) == StepToward(a, NodeInfo_edgeEnd(a, numEdges))

\* the address handed to node n when nodes first .. n are laid out from address base
RECURSIVE LaidAt(_, _, _, _)
LaidAt(g, first, base, n) ==
  IF n = first THEN base
  ELSE NodeInfo_next(LaidAt(g, first, base, n - 1), FileGraph_neighborsSize(g, n - 1))

\* ---- LC_Linear_Graph: a node handle is the address of its NodeInfo in Data ----
LC_Linear_Graph(g) ==
  LET N == FileGraph_size(g)
      E == FileGraph_sizeEdges(g)
      nodes == [n \in 0..(N - 1) |-> LaidAt(g, 0, 0, n)]
      slots == {<<n, j>> \in (0..(N - 1)) \X (0..(E - 1)) : j < FileGraph_neighborsSize(g, n)}
      at(s) == NodeInfo_edgeBegin(nodes[s[1]]) + s[2] * SizeofEdgeInfo
  IN [kind |-> "Linear",
      numNodes |-> N,
      numEdges |-> E,
      size |-> SizeofNodeInfo * N * 2 + SizeofEdgeInfo * E,
      nodes |-> nodes,
      NodeAt |-> [a \in {nodes[n] : n \in 0..(N - 1)} |->
                    LET n == CHOOSE n \in 0..(N - 1) : nodes[n] = a
                    IN [numEdges |-> FileGraph_neighborsSize(g, n)]],
      EdgeAt |-> [a \in {at(s) : s \in slots} |->
                    LET s == CHOOSE s \in slots : at(s) = a
                        pos == FileGraph_neighbor(g, s[1], s[2])
                    IN [dst |-> nodes[FileGraph_nodeid(g, pos)],
                        data |-> FileGraph_getEdgeData(g, pos)]]]
LC_Linear_node(L, id) == L.nodes[id]
LC_Linear_edges(L, N) ==
  [k \in 1..L.NodeAt[N].numEdges |->
     L.EdgeAt[NodeInfo_edgeBegin(N) + (k - 1) * SizeofEdgeInfo].dst]

\* ---- LC_Linear2_Graph: every worker has an arena of its own; an address is
\* <<worker, byte offset in the worker's arena>> ----
\* a DistributeInfo as PerCPU storage holds it before distribute writes it
DistributeInfo0 == [numNodes |-> 0, numEdges |-> 0, begin |-> 0, end |-> 0]

\* distribute: the inner loop for worker tid, from the loop state st on
RECURSIVE distribute_nodes(_, _, _, _)
distribute_nodes(g, st, tid, blockSize) ==
  IF st.ii = FileGraph_size(g) THEN st
  ELSE IF st.curSize >= (tid + 1) * blockSize
  THEN [st EXCEPT !.dinfo[tid] = [numNodes |-> st.nnodes, numEdges |-> st.nedges,
                                  begin |-> st.last, end |-> st.ii],
                  !.runningNodes = @ + st.nnodes,
                  !.runningEdges = @ + st.nedges,
                  !.nnodes = 0,
                  !.nedges = 0,
                  !.last = st.ii]
  ELSE LET nneighbors == FileGraph_neighborsSize(g, st.ii) IN
       distribute_nodes(g,
         [st EXCEPT !.nedges = @ + nneighbors,
                    !.nnodes = @ + 1,
                    !.curSize = @ + SizeofNodeInfo + SizeofEdgeInfo * nneighbors,
                    !.ii = @ + 1],
         tid, blockSize)
\* distribute: the loop over the workers but the last, and the last worker's share
RECURSIVE distribute_workers(_, _, _, _, _)
distribute_workers(g, st, tid, num, blockSize) ==
  IF tid + 1 < num
  THEN distribute_workers(g, distribute_nodes(g, st, tid, blockSize), tid + 1, num, blockSize)
  ELSE [st.dinfo EXCEPT ![tid] =
          [numNodes |-> FileGraph_size(g) - st.runningNodes,
           numEdges |-> FileGraph_sizeEdges(g) - st.runningEdges,
           begin |-> st.last, end |-> FileGraph_size(g)]]
LC_Linear2_distribute_LastFromZero(g, num) ==
  LET total == SizeofNodeInfo * FileGraph_size(g) + SizeofEdgeInfo * FileGraph_sizeEdges(g)
      blockSize == total \div num
      dinfo == distribute_workers(g,
                 [ii |-> 0, last |-> 0, curSize |-> 0, nnodes |-> 0, nedges |-> 0,
                  runningNodes |-> 0, runningEdges |-> 0,
                  dinfo |-> [t \in Workers |-> DistributeInfo0]],
                 0, num, blockSize)
  IN [dinfo EXCEPT ![num - 1].begin = 0]
\* LC_Linear2_Graph::distribute with num active threads: the DistributeInfo of every worker
LC_Linear2_distribute(g, num) ==
  LET total == SizeofNodeInfo * FileGraph_size(g) + SizeofEdgeInfo * FileGraph_sizeEdges(g)
      blockSize == total \div num
  IN distribute_workers(g,
       [ii |-> 0, last |-> 0, curSize |-> 0, nnodes |-> 0, nedges |-> 0,
        runningNodes |-> 0, runningEdges |-> 0,
        dinfo |-> [t \in Workers |-> DistributeInfo0]],
       0, num, blockSize)

\* AllocateNodes::operator()(tid): the Header of the worker's arena
AllocateNodes_header(g, d) ==
  [size |-> SizeofChunkHeader * 2 + SizeofNodeInfo * d.numNodes * 2
              + SizeofEdgeInfo * d.numEdges,
   begin |-> SizeofChunkHeader,
   end |-> IF d.numNodes = 0 THEN SizeofChunkHeader
           ELSE LaidAt(g, d.begin, SizeofChunkHeader, d.end)]
AllocateNodes_range_SkipLast(d) == IF d.numNodes = 0 THEN {} ELSE d.begin..(d.end - 2)
\* the nodes worker tid lays out
AllocateNodes_range(d) == IF d.numNodes = 0 THEN {} ELSE d.begin..(d.end - 1)

LC_Linear2_Graph(g, num) ==
  LET N == FileGraph_size(g)
      E == FileGraph_sizeEdges(g)
      dinfo == LC_Linear2_distribute(g, num)
      active == 0..(num - 1)
      writers(n) == {t \in active : n \in AllocateNodes_range(dinfo[t])}
      nodes == [n \in 0..(N - 1) |->
                  IF writers(n) = {} THEN Unwritten
                  ELSE LET t == CHOOSE t \in writers(n) : TRUE
                       IN <<t, LaidAt(g, dinfo[t].begin, SizeofChunkHeader, n)>>]
      slots == {<<n, j>> \in (0..(N - 1)) \X (0..(E - 1)) :
                  writers(n) # {} /\ j < FileGraph_neighborsSize(g, n)}
      at(s) == <<nodes[s[1]][1],
                 NodeInfo_edgeBegin(nodes[s[1]][2]) + s[2] * SizeofEdgeInfo>>
  IN [kind |-> "Linear2",
      numNodes |-> N,
      numEdges |-> E,
      num |-> num,
      dinfo |-> dinfo,
      headers |-> [t \in active |-> AllocateNodes_header(g, dinfo[t])],
      nodes |-> nodes,
      NodeAt |-> [a \in {nodes[n] : n \in 0..(N - 1)} \ {Unwritten} |->
                    LET n == CHOOSE n \in 0..(N - 1) : nodes[n] = a
                    IN [numEdges |-> FileGraph_neighborsSize(g, n)]],
      EdgeAt |-> [a \in {at(s) : s \in slots} |->
                    LET s == CHOOSE s \in slots : at(s) = a
                        pos == FileGraph_neighbor(g, s[1], s[2])
                    IN [dst |-> nodes[FileGraph_nodeid(g, pos)],
                        data |-> FileGraph_getEdgeData(g, pos)]]]
LC_Linear2_node(L, id) == L.nodes[id]
LC_Linear2_edges(L, N) ==
  [k \in 1..L.NodeAt[N].numEdges |->
     L.EdgeAt[<<N[1], NodeInfo_edgeBegin(N[2]) + (k - 1) * SizeofEdgeInfo>>].dst]

\* ---- LC_Linear2_Graph::local_iterator: tid, p (the worker whose Header p points
\* at, or NoHeader) and v (a node address, or NullNode) ----
NoHeader == 0 - 1
NullNode == <<0 - 1, 0>>
\* headers->size(): the size of PerCPU storage
LC_Linear2_headers_size == NumWorkers
\* headers->get(tid): null for a thread that never ran AllocateNodes
LC_Linear2_headers_get(L, tid) == IF tid \in DOMAIN L.headers THEN tid ELSE NoHeader
\* the address lies in worker t's arena with room for a NodeInfo
InArena(L, a) ==
  /\ a[1] \in DOMAIN L.headers
  /\ a[2] >= 0
  /\ a[2] + SizeofNodeInfo <= L.headers[a[1]].size
\* numEdges of the NodeInfo at address a: that of the node laid out there, or the
\* zero that memset left
NodeInfo_numEdges(L, a) == IF a \in DOMAIN L.NodeAt THEN L.NodeAt[a].numEdges ELSE 0

local_iterator_init_thread(L, it) ==
  LET p == IF it.tid < LC_Linear2_headers_size
           THEN LC_Linear2_headers_get(L, it.tid) ELSE NoHeader
      v == IF p # NoHeader THEN <<p, L.headers[p].begin>> ELSE NullNode
  IN [it |-> [tid |-> it.tid, p |-> p, v |-> v], ok |-> p # NoHeader]

local_iterator_advance_local(L, it) ==
  IF it.p # NoHeader
  THEN LET v == <<it.v[1], NodeInfo_next(it.v[2], NodeInfo_numEdges(L, it.v))>>
       IN [it |-> [it EXCEPT !.v = v], ok |-> v[2] # L.headers[it.p].end]
  ELSE [it |-> it, ok |-> FALSE]

RECURSIVE local_iterator_advance_thread(_, _)
local_iterator_advance_thread(L, it) ==
  IF it.tid < LC_Linear2_headers_size
  THEN LET r == local_iterator_init_thread(L, [it EXCEPT !.tid = @ + 1])
       IN IF r.ok THEN r.it ELSE local_iterator_advance_thread(L, r.it)
  ELSE it

local_iterator_advance(L, it) ==
  LET r == local_iterator_advance_local(L, it)
  IN IF r.ok THEN r.it ELSE local_iterator_advance_thread(L, r.it)

\* local_iterator(_headers, _tid)
local_iterator(L, tid) ==
  LET r == local_iterator_init_thread(L, [tid |-> tid, p |-> NoHeader, v |-> NullNode])
  IN IF r.ok THEN r.it ELSE local_iterator_advance_thread(L, r.it)

\* local_begin() and local_end() called by the thread with index tid
LC_Linear2_local_begin(L, tid) == local_iterator(L, tid)
LC_Linear2_local_end(L, tid) == local_iterator(L, tid + 1)

\* what a loop from it up to last yields with operator*; the loop is followed as
\* long as the iterator points into an arena (beyond it the reads are undefined),
\* and RanOff stands for the rest
RanOff == <<0 - 2, 0>>
RECURSIVE local_iterator_yield(_, _, _)
local_iterator_yield(L, it, last) ==
  IF it = last THEN <<>>
  ELSE IF ~InArena(L, it.v) THEN <<RanOff>>
  ELSE <<it.v>> \o local_iterator_yield(L, local_iterator_advance(L, it), last)
LC_Linear2_local_nodes(L, tid) ==
  local_iterator_yield(L, LC_Linear2_local_begin(L, tid), LC_Linear2_local_end(L, tid))

\* ---- what structureFromFile leaves in memory besides the topology ----
\* a word of memory as far as a marker is concerned: zero, which is the unlocked
\* marker, or not zero
Words == {NoOwner, NoOwner + 1}
\* the size of an arena: n elements of a unit
Sized(unit, n) == [unit |-> unit, n |-> n]
Allocated(size) == [size |-> size, freed |-> <<>>]
\* constructor and destructor runs once structureFromFile has constructed the
\* payload of N nodes and of E edges
Constructed(N, E) ==
  [nodeCtor |-> [k \in 0..(N - 1) |-> 1], nodeDtor |-> [k \in 0..(N - 1) |-> 0],
   edgeCtor |-> [k \in 0..(E - 1) |-> 1], edgeDtor |-> [k \in 0..(E - 1) |-> 0]]
\* number of edge payloads allocateEdgeData constructs (none for EdgeTy = void)
EdgePayloads(g) == IF g.sizeEdgeTy = 0 THEN 0 ELSE FileGraph_sizeEdges(g)

\* LC_CSR_Graph: new (&NodeData[x]) NodeTy constructs the payload at the start of
\* the NodeInfo, where its Lockable base lies; the member data is not constructed
LC_CSR_NodeInfo(e) == [marker |-> e.ctor, data |-> e.raw]
\* the other layouts: new (&curNode->data) NodeTy; the Lockable base is what the
\* allocator returned
LC_CSRInline_NodeInfo(e) == [marker |-> e.raw, data |-> e.ctor]
LC_Linear_NodeInfo(e) == [marker |-> e.raw, data |-> e.ctor]
\* LC_Linear2_Graph: memset(raw, 0, size) before the payload is constructed
LC_Linear2_NodeInfo(e) == [marker |-> NoOwner, data |-> e.ctor]

\* the arenas structureFromFile allocates
LC_CSR_arenas(g) ==
  [a \in {<<"NodeData", 0>>, <<"EdgeIndData", 0>>, <<"EdgeDst", 0>>}
         \cup (IF g.sizeEdgeTy = 0 THEN {} ELSE {<<"EdgeData", 0>>}) |->
     CASE a[1] = "NodeData" -> Allocated(Sized("NodeInfo", FileGraph_size(g)))
       [] a[1] = "EdgeIndData" -> Allocated(Sized("uint64_t", FileGraph_size(g)))
       [] a[1] = "EdgeDst" -> Allocated(Sized("uint32_t", FileGraph_sizeEdges(g)))
       [] OTHER -> Allocated(Sized("EdgeTy", FileGraph_sizeEdges(g)))]
LC_CSRInline_arenas(g) ==
  [a \in {<<"NodeData", 0>>, <<"EdgeData", 0>>} |->
     IF a[1] = "NodeData" THEN Allocated(Sized("NodeInfo", FileGraph_size(g)))
     ELSE Allocated(Sized("EdgeInfo", FileGraph_sizeEdges(g)))]
LC_Linear_arenas(g) ==
  [a \in {<<"Data", 0>>, <<"nodes", 0>>} |->
     IF a[1] = "Data"
     THEN Allocated(Sized("char", SizeofNodeInfo * FileGraph_size(g) * 2
                                   + SizeofEdgeInfo * FileGraph_sizeEdges(g)))
     ELSE Allocated(Sized("NodeInfo*", FileGraph_size(g)))]
LC_Linear2_arenas(g, headers) ==
  [a \in {<<"nodes", 0>>} \cup {<<"raw", t>> : t \in DOMAIN headers} |->
     IF a[1] = "nodes" THEN Allocated(Sized("NodeInfo*", FileGraph_size(g)))
     ELSE Allocated(Sized("char", headers[a[2]].size))]

\* ---- structureFromFile of the four layouts, on an intact image ----
CanBuild(fname) ==
  /\ Running
  /\ lc = NoGraph
  /\ par.stage = "idle"
  /\ disk[fname] # NoFile
  /\ input.bad = "none"

LC_CSR_structureFromFile(fname) ==
  /\ CanBuild(fname)
  /\ LET g == LocalFileGraph(fname) IN
       /\ lc' = LC_CSR_Graph(g)
       /\ nodeRec' = [k \in 0..(FileGraph_size(g) - 1) |-> LC_CSR_NodeInfo(env)]
       /\ arena' = LC_CSR_arenas(g)
       \* EdgeData.readIn copies the payload with std::copy: no constructor runs
       /\ payRuns' = Constructed(FileGraph_size(g), 0)
  /\ UNCHANGED <<input, disk, fg, fgOp, env, nwrites, par, notGraph>>

LC_CSRInline_structureFromFile(fname) ==
  /\ CanBuild(fname)
  /\ LET g == LocalFileGraph(fname) IN
       /\ lc' = LC_CSRInline_Graph(g)
       /\ nodeRec' = [k \in 0..(FileGraph_size(g) - 1) |-> LC_CSRInline_NodeInfo(env)]
       /\ arena' = LC_CSRInline_arenas(g)
       /\ payRuns' = Constructed(FileGraph_size(g), EdgePayloads(g))
  /\ UNCHANGED <<input, disk, fg, fgOp, env, nwrites, par, notGraph>>

LC_Linear_structureFromFile(fname) ==
  /\ CanBuild(fname)
  /\ LET g == LocalFileGraph(fname) IN
       /\ lc' = LC_Linear_Graph(g)
       /\ nodeRec' = [k \in 0..(FileGraph_size(g) - 1) |-> LC_Linear_NodeInfo(env)]
       /\ arena' = LC_Linear_arenas(g)
       /\ payRuns' = Constructed(FileGraph_size(g), EdgePayloads(g))
  /\ UNCHANGED <<input, disk, fg, fgOp, env, nwrites, par, notGraph>>

\* num is Galois::getActiveThreads()
LC_Linear2_structureFromFile(fname, num) ==
  /\ CanBuild(fname)
  /\ LET g == LocalFileGraph(fname)
         L == LC_Linear2_Graph(g, num)
     IN /\ lc' = L
        /\ nodeRec' = [k \in 0..(FileGraph_size(g) - 1) |-> LC_Linear2_NodeInfo(env)]
        /\ arena' = LC_Linear2_arenas(g, L.headers)
        /\ payRuns' = Constructed(FileGraph_size(g), EdgePayloads(g))
  /\ UNCHANGED <<input, disk, fg, fgOp, env, nwrites, par, notGraph>>

BuildCSRStep == LC_CSR_structureFromFile("in")
BuildCSRInlineStep == LC_CSRInline_structureFromFile("in")
BuildLinearStep == LC_Linear_structureFromFile("in")
BuildLinear2Step == \E num \in 1..NumWorkers : LC_Linear2_structureFromFile("in", num)

LayoutNext ==
  \/ BuildCSRStep
  \/ BuildCSRInlineStep
  \/ BuildLinearStep
  \/ BuildLinear2Step

\* ---- payload written through the references the accessors return ----
\* a write through getData(N): the member data of N's NodeInfo
NodeInfo_setData(recs, id, v) == [recs EXCEPT ![id].data = v]
\* a write through getEdgeData(ni): EdgeData.get(*ni) in LC_CSR_Graph, and
\* ni->getData() in the other layouts
LC_CSR_setEdgeData(L, ni, v) == [L EXCEPT !.EdgeData[ni] = v]
LC_CSRInline_setEdgeData_Dst(L, ni, v) == [L EXCEPT !.EdgeData[ni].dst = v]
LC_CSRInline_setEdgeData(L, ni, v) == [L EXCEPT !.EdgeData[ni].data = v]
LC_Linear_setEdgeData(L, ni, v) == [L EXCEPT !.EdgeAt[ni].data = v]
LC_Linear2_setEdgeData(L, ni, v) == [L EXCEPT !.EdgeAt[ni].data = v]
\* the edge iterators of a built graph
EdgeIterators(L) ==
  CASE L.kind = "CSR" -> DOMAIN L.EdgeData
    [] L.kind = "CSRInline" -> DOMAIN L.EdgeData
    [] OTHER -> DOMAIN L.EdgeAt
EdgeDataAt(L, ni) ==
  CASE L.kind = "CSR" -> L.EdgeData[ni]
    [] L.kind = "CSRInline" -> L.EdgeData[ni].data
    [] OTHER -> L.EdgeAt[ni].data

\* the caller adds one to the payload of node id
WriteNodeData(id) ==
  /\ lc.kind \in Layouts
  /\ nwrites < MaxWrites
  /\ id \in DOMAIN nodeRec
  /\ nodeRec' = NodeInfo_setData(nodeRec, id, nodeRec[id].data + 1)
  /\ nwrites' = nwrites + 1
  /\ UNCHANGED <<fgVars, env, arena, payRuns, par, notGraph>>

\* the caller adds one to the payload of the edge ni points at (EdgeTy is not void)
WriteEdgeData(ni) ==
  /\ lc.kind \in Layouts
  /\ nwrites < MaxWrites
  /\ input.g.sz # 0
  /\ ni \in EdgeIterators(lc)
  /\ LET v == EdgeDataAt(lc, ni) + 1 IN
       lc' = CASE lc.kind = "CSR" -> LC_CSR_setEdgeData(lc, ni, v)
               [] lc.kind = "CSRInline" -> LC_CSRInline_setEdgeData(lc, ni, v)
               [] lc.kind = "Linear" -> LC_Linear_setEdgeData(lc, ni, v)
               [] OTHER -> LC_Linear2_setEdgeData(lc, ni, v)
  /\ nwrites' = nwrites + 1
  /\ UNCHANGED <<input, disk, fg, fgOp, env, nodeRec, arena, payRuns, par, notGraph>>

\* ---- the destructors ----
\* the sizes the destructor gives to largeInterleavedFree / largeFree, by arena
LC_CSR_frees(L) ==
  [a \in DOMAIN arena |->
     CASE a[1] = "EdgeDst" -> Sized("uint32_t", L.numEdges)
       [] a[1] = "EdgeIndData" -> Sized("uint64_t", L.numNodes)
       [] a[1] = "NodeData" -> Sized("NodeInfo", L.numNodes)
       \* ~EdgeDataWrapper
       [] OTHER -> Sized("EdgeTy", L.numEdges)]
LC_CSRInline_frees(L) ==
  [a \in DOMAIN arena |->
     IF a[1] = "EdgeData" THEN Sized("EdgeInfo", L.numEdges)
     ELSE Sized("NodeInfo", L.numEdges)]
LC_Linear_frees(L) ==
  [a \in DOMAIN arena |->
     IF a[1] = "nodes" THEN Sized("NodeInfo*", L.numNodes)
     ELSE Sized("char", SizeofNodeInfo * L.numNodes * 2 + SizeofEdgeInfo * L.numEdges)]
LC_Linear2_frees(L) ==
  [a \in {<<"nodes", 0>>}
         \cup {<<"raw", i>> : i \in {t \in 0..(LC_Linear2_headers_size - 1) :
                                       LC_Linear2_headers_get(L, t) # NoHeader}} |->
     IF a[1] = "nodes" THEN Sized("NodeInfo*", L.numNodes)
     ELSE Sized("char", L.headers[a[2]].size)]

\* the graph object is gone: its arenas have been given back with the sizes frees
\* names, and no payload destructor has run (TODO(ddn) in every destructor)
Destroyed(kind, frees) ==
  /\ lc.kind = kind
  /\ arena' = [a \in DOMAIN arena |->
                 IF a \in DOMAIN frees
                 THEN [arena[a] EXCEPT !.freed = Append(@, frees[a])] ELSE arena[a]]
  /\ payRuns' = payRuns
  /\ lc' = [kind |-> "destroyed"]
  /\ nodeRec' = <<>>
  /\ UNCHANGED <<input, disk, fg, fgOp, env, nwrites, par, notGraph>>

LC_CSR_Graph_destructor == Destroyed("CSR", LC_CSR_frees(lc))
LC_CSRInline_Graph_destructor == Destroyed("CSRInline", LC_CSRInline_frees(lc))
LC_Linear_Graph_destructor == Destroyed("Linear", LC_Linear_frees(lc))
LC_Linear2_Graph_destructor == Destroyed("Linear2", LC_Linear2_frees(lc))

\* ---- LC_Linear2_Graph::structureFromFile, thread by thread ----
\* structureFromFile up to the first on_each: the file is loaded, distribute has
\* run and the array nodes is allocated; num is Galois::getActiveThreads()
LC_Linear2_structureFromFile_begin(fname, num) ==
  /\ CanBuild(fname)
  /\ LET g == LocalFileGraph(fname) IN
       par' = [stage |-> "AllocateNodes",
               num |-> num,
               dinfo |-> LC_Linear2_distribute(g, num),
               pc |-> [t \in 0..(num - 1) |-> "call"],
               ii |-> [t \in 0..(num - 1) |-> 0],
               headers |-> <<>>,
               nodes |-> [n \in 0..(FileGraph_size(g) - 1) |-> Unwritten],
               writers |-> [n \in 0..(FileGraph_size(g) - 1) |-> <<>>],
               NodeAt |-> <<>>,
               EdgeAt |-> <<>>,
               earlyRead |-> FALSE,
               unwrittenRead |-> FALSE]
  /\ UNCHANGED <<fgVars, env, nodeRec, arena, payRuns, nwrites, notGraph>>

\* AllocateNodes::operator()(tid, num) up to its loop: the arena is allocated and
\* zeroed and its Header installed in the thread's own slot of headers
AllocateNodes_call(tid) ==
  /\ par.stage = "AllocateNodes"
  /\ tid \in DOMAIN par.pc
  /\ par.pc[tid] = "call"
  /\ LET d == par.dinfo[tid]
         h == [AllocateNodes_header(LocalFileGraph("in"), d) EXCEPT !.end = SizeofChunkHeader]
     IN par' = [par EXCEPT !.headers = (tid :> h) @@ @,
                           !.ii[tid] = d.begin,
                           !.pc[tid] = IF AllocateNodes_range(d) = {} THEN "return" ELSE "loop"]
  /\ UNCHANGED <<fgVars, env, nodeRec, arena, payRuns, nwrites, notGraph>>

\* one turn of the loop of AllocateNodes: the node *ii is constructed at h->end and
\* its address written to nodes[*ii]
AllocateNodes_node(tid) ==
  /\ par.stage = "AllocateNodes"
  /\ tid \in DOMAIN par.pc
  /\ par.pc[tid] = "loop"
  /\ LET g == LocalFileGraph("in")
         n == par.ii[tid]
         a == par.headers[tid].end
         numEdges == FileGraph_neighborsSize(g, n)
     IN par' = [par EXCEPT !.NodeAt = (<<tid, a>> :> [numEdges |-> numEdges]) @@ @,
                           !.nodes[n] = <<tid, a>>,
                           !.writers[n] = Append(@, tid),
                           !.headers[tid].end = NodeInfo_next(a, numEdges),
                           !.ii[tid] = n + 1,
                           !.pc[tid] = IF n + 1 \in AllocateNodes_range(par.dinfo[tid])
                                       THEN "loop" ELSE "return"]
  /\ UNCHANGED <<fgVars, env, nodeRec, arena, payRuns, nwrites, notGraph>>

\* Galois::on_each(AllocateNodes(...)) returns when every thread has returned from
\* the functor; the next statement is Galois::on_each(AllocateEdges(...))
on_each_return ==
  /\ par.stage = "AllocateNodes"
  /\ \A t \in DOMAIN par.pc : par.pc[t] = "return"
  /\ par' = [par EXCEPT !.stage = "AllocateEdges",
                        !.pc = [t \in DOMAIN par.pc |-> "call"]]
  /\ UNCHANGED <<fgVars, env, nodeRec, arena, payRuns, nwrites, notGraph>>

\* the nodes whose edges worker tid lays out
AllocateEdges_range(d) == IF d.numNodes = 0 THEN {} ELSE d.begin..(d.end - 1)
\* some thread is still inside AllocateNodes
InAllocateNodes(p) ==
  p.stage = "AllocateNodes" /\ \E t \in DOMAIN p.pc : p.pc[t] # "return"

\* AllocateEdges::operator()(tid, num) up to its loop
AllocateEdges_call(tid) ==
  /\ par.stage = "AllocateEdges"
  /\ tid \in DOMAIN par.pc
  /\ par.pc[tid] = "call"
  /\ LET d == par.dinfo[tid] IN
       par' = [par EXCEPT !.ii[tid] = d.begin,
                          !.pc[tid] = IF AllocateEdges_range(d) = {} THEN "return" ELSE "loop"]
  /\ UNCHANGED <<fgVars, env, nodeRec, arena, payRuns, nwrites, notGraph>>

\* one turn of the outer loop of AllocateEdges: nodes[*ii] is read for the place of
\* the edges of *ii, and nodes[*ni] for the destination of every edge
AllocateEdges_node(tid) ==
  /\ par.stage = "AllocateEdges"
  /\ tid \in DOMAIN par.pc
  /\ par.pc[tid] = "loop"
  /\ LET g == LocalFileGraph("in")
         n == par.ii[tid]
         N == par.nodes[n]
         ks == 0..(FileGraph_neighborsSize(g, n) - 1)
         pos(k) == FileGraph_neighbor(g, n, k)
         at(k) == <<N[1], NodeInfo_edgeBegin(N[2]) + k * SizeofEdgeInfo>>
         read == {n} \cup {FileGraph_nodeid(g, pos(k)) : k \in ks}
         edges == [a \in {at(k) : k \in ks} |->
                     LET k == CHOOSE k \in ks : at(k) = a
                     IN [dst |-> par.nodes[FileGraph_nodeid(g, pos(k))],
                         data |-> FileGraph_getEdgeData(g, pos(k))]]
     IN par' = [par EXCEPT !.EdgeAt = IF N = Unwritten THEN @ ELSE edges @@ @,
                           !.unwrittenRead = @ \/ \E r \in read : par.nodes[r] = Unwritten,
                           !.earlyRead = @ \/ InAllocateNodes(par),
                           !.ii[tid] = n + 1,
                           !.pc[tid] = IF n + 1 \in AllocateEdges_range(par.dinfo[tid])
                                       THEN "loop" ELSE "return"]
  /\ UNCHANGED <<fgVars, env, nodeRec, arena, payRuns, nwrites, notGraph>>

\* the second on_each returns and with it structureFromFile
LC_Linear2_structureFromFile_end ==
  /\ par.stage = "AllocateEdges"
  /\ \A t \in DOMAIN par.pc : par.pc[t] = "return"
  /\ LET g == LocalFileGraph("in") IN
       /\ lc' = [kind |-> "Linear2",
                 numNodes |-> FileGraph_size(g),
                 numEdges |-> FileGraph_sizeEdges(g),
                 num |-> par.num,
                 dinfo |-> par.dinfo,
                 headers |-> par.headers,
                 nodes |-> par.nodes,
                 NodeAt |-> par.NodeAt,
                 EdgeAt |-> par.EdgeAt]
       /\ nodeRec' = [k \in 0..(FileGraph_size(g) - 1) |-> LC_Linear2_NodeInfo(env)]
       /\ arena' = LC_Linear2_arenas(g, par.headers)
       /\ payRuns' = Constructed(FileGraph_size(g), EdgePayloads(g))
  /\ par' = [par EXCEPT !.stage = "done"]
  /\ UNCHANGED <<input, disk, fg, fgOp, env, nwrites, notGraph>>

ParBeginStep == \E num \in 1..NumWorkers : LC_Linear2_structureFromFile_begin("in", num)
AllocateNodesStep == \E tid \in Workers : AllocateNodes_call(tid) \/ AllocateNodes_node(tid)
AllocateEdgesStep == \E tid \in Workers : AllocateEdges_call(tid) \/ AllocateEdges_node(tid)
ParNext ==
  \/ ParBeginStep
  \/ AllocateNodesStep
  \/ on_each_return
  \/ AllocateEdgesStep
  \/ LC_Linear2_structureFromFile_end

\* no graph object yet
ConIdle ==
  /\ env = [ctor |-> NoOwner + 1, raw |-> NoOwner]
  /\ nodeRec = <<>>
  /\ arena = <<>>
  /\ payRuns = Constructed(0, 0)
  /\ nwrites = 0
  /\ par = [stage |-> "idle"]
\* ... whatever the payload constructor writes and fresh memory holds
ConInit ==
  /\ env \in [ctor : Words, raw : Words]
  /\ nodeRec = <<>>
  /\ arena = <<>>
  /\ payRuns = Constructed(0, 0)
  /\ nwrites = 0
  /\ par = [stage |-> "idle"]

WriteNodeStep == \E id \in 0..MaxFNodes : WriteNodeData(id)
WriteEdgeStep == lc.kind \in Layouts /\ \E ni \in EdgeIterators(lc) : WriteEdgeData(ni)
DestroyStep ==
  \/ LC_CSR_Graph_destructor
  \/ LC_CSRInline_Graph_destructor
  \/ LC_Linear_Graph_destructor
  \/ LC_Linear2_Graph_destructor

LifeNext ==
  \/ LayoutNext
  \/ WriteNodeStep
  \/ WriteEdgeStep
  \/ DestroyStep

(***************************************************************************)
(* Specifications                                                          *)
(***************************************************************************)
\* Conflict detection on the graph accessors and GWrapped
(***************************************************************************)
(* The segments of an insert bag for every element size (InsBag.h)         *)
(***************************************************************************)
\* galois_insert_bag<T>::newHeader with sizeof(T) = sizeofT on a page of pageSize
\* bytes: dbegin, dend, dlast as indexes into the page seen as an array of T
galois_insert_bag_newHeader(sizeofT, pageSize) ==
  LET offset == IF sizeofT < SizeofHeader THEN 1 + (SizeofHeader \div sizeofT) ELSE 1
  IN [dbegin |-> offset, dend |-> offset, dlast |-> pageSize \div sizeofT]
\* if (!H || H->dend == H->dlast)
galois_insert_bag_push_needsHeader(segs) ==
  segs = <<>> \/ segs[Len(segs)].dend = segs[Len(segs)].dlast

\* galois_insert_bag<T>::push by one worker; segs are the worker's segments, the
\* last of them the one heads.get() points at
galois_insert_bag_push ==
  /\ seg.st = "live"
  /\ seg.n < MaxSegPush
  /\ LET segs == IF galois_insert_bag_push_needsHeader(seg.segs)
                 THEN Append(seg.segs, galois_insert_bag_newHeader(seg.sizeofT, SegPageSize))
                 ELSE seg.segs
         H == Len(segs)
         rv == segs[H].dend
     IN seg' = [seg EXCEPT !.segs = [segs EXCEPT ![H].dend = rv + 1],
                           !.n = @ + 1,
                           \* new (H->dend) T(val) at or beyond dlast
                           !.beyond = @ \/ rv >= segs[H].dlast]
  /\ UNCHANGED <<sa, si, ga, notLl>>

SegInit ==
  /\ seg \in {[st |-> "live", sizeofT |-> t, segs |-> <<>>, n |-> 0, beyond |-> FALSE] :
               t \in 1..SegPageSize}
  /\ si = [st |-> "idle"]
  /\ ga = [st |-> "idle"]
  /\ sa = [st |-> "idle"]

(***************************************************************************)
(* StaticInstance (ll/StaticInstance.h): the threads are the workers, every *)
(* access to V and _lock is a step of its own                              *)
(***************************************************************************)
\* the null pointer; the n-th object made by new T() has the address n
NullT == 0
\* lock(): } while (oldval & 1)
StaticInstance_lock_retry_Never(oldval) == FALSE
StaticInstance_lock_retry(oldval) == oldval % 2 = 1
\* get(): if (!val) after the lock is taken
StaticInstance_get_construct_Always(val) == TRUE
StaticInstance_get_construct(val) == val = NullT
\* the threads between a return from lock() and the end of the following unlock()
Holders == {t \in Workers : si.pc[t] \in {"reread", "new", "store", "unlock"}}

\* get(): volatile T* val = V; if (val) return (T*)val;
StaticInstance_get_read(t) ==
  /\ si.st = "live"
  /\ si.pc[t] = "call"
  /\ si' = [si EXCEPT !.val[t] = si.V,
                      !.pc[t] = IF si.V # NullT THEN "return" ELSE "spin"]
  /\ UNCHANGED <<seg, ga, sa, notLl>>

\* lock(): while (_lock != 0) asmPause(); the loop is left when _lock is read as 0
StaticInstance_lock_spin(t) ==
  /\ si.st = "live"
  /\ si.pc[t] = "spin"
  /\ si.lock = 0
  /\ si' = [si EXCEPT !.pc[t] = "fetch_and_or"]
  /\ UNCHANGED <<seg, ga, sa, notLl>>

\* lock(): oldval = __sync_fetch_and_or(&_lock, 1)
StaticInstance_lock_fetch_and_or(t) ==
  /\ si.st = "live"
  /\ si.pc[t] = "fetch_and_or"
  /\ si' = [si EXCEPT !.oldval[t] = si.lock,
                      !.tries[t] = @ + 1,
                      !.lock = 1,
                      !.pc[t] = IF StaticInstance_lock_retry(si.lock) THEN "spin" ELSE "reread"]
  /\ UNCHANGED <<seg, ga, sa, notLl>>

\* get(): val = V; if (!val) ...
StaticInstance_get_reread(t) ==
  /\ si.st = "live"
  /\ si.pc[t] = "reread"
  /\ si' = [si EXCEPT !.val[t] = si.V,
                      !.pc[t] = IF StaticInstance_get_construct(si.V) THEN "new" ELSE "unlock"]
  /\ UNCHANGED <<seg, ga, sa, notLl>>

\* get(): val = new T()
StaticInstance_get_new(t) ==
  /\ si.st = "live"
  /\ si.pc[t] = "new"
  /\ si' = [si EXCEPT !.made = @ + 1, !.val[t] = si.made + 1, !.pc[t] = "store"]
  /\ UNCHANGED <<seg, ga, sa, notLl>>

\* get(): V = val
StaticInstance_get_store(t) ==
  /\ si.st = "live"
  /\ si.pc[t] = "store"
  /\ si' = [si EXCEPT !.V = si.val[t], !.pc[t] = "unlock"]
  /\ UNCHANGED <<seg, ga, sa, notLl>>

\* unlock(): _lock = 0; then get() returns val
StaticInstance_unlock(t) ==
  /\ si.st = "live"
  /\ si.pc[t] = "unlock"
  /\ si' = [si EXCEPT !.lock = 0, !.pc[t] = "return"]
  /\ UNCHANGED <<seg, ga, sa, notLl>>

\* a zero-initialised StaticInstance (a global), every thread about to call get()
SiInit ==
  /\ si = [st |-> "live", V |-> NullT, lock |-> 0, made |-> 0,
           pc |-> [t \in Workers |-> "call"],
           val |-> [t \in Workers |-> NullT],
           oldval |-> [t \in Workers |-> 0],
           \* history: the fetch-and-or operations the thread has made
           tries |-> [t \in Workers |-> 0]]
  /\ seg = [st |-> "idle"]
  /\ ga = [st |-> "idle"]
  /\ sa = [st |-> "idle"]

GetReadStep == \E t \in Workers : StaticInstance_get_read(t)
LockSpinStep == \E t \in Workers : StaticInstance_lock_spin(t)
LockFetchStep == \E t \in Workers : StaticInstance_lock_fetch_and_or(t)
GetRereadStep == \E t \in Workers : StaticInstance_get_reread(t)
GetNewStep == \E t \in Workers : StaticInstance_get_new(t)
GetStoreStep == \E t \in Workers : StaticInstance_get_store(t)
UnlockStep == \E t \in Workers : StaticInstance_unlock(t)
SiNext ==
  \/ GetReadStep
  \/ LockSpinStep
  \/ LockFetchStep
  \/ GetRereadStep
  \/ GetNewStep
  \/ GetStoreStep
  \/ UnlockStep

(***************************************************************************)
(* safe_advance (util/GAlgs.h): an iterator is its position                *)
(***************************************************************************)
\* safe_advance_dispatch(b, e, n, std::random_access_iterator_tag)
safe_advance_dispatch_random_access(b, e, n) ==
  IF e - b < n THEN b + n ELSE e
\* safe_advance_dispatch(b, e, n, std::input_iterator_tag): while (b != e && n--) ++b
RECURSIVE safe_advance_dispatch_input(_, _, _)
safe_advance_dispatch_input(b, e, n) ==
  IF b # e /\ n # 0 THEN safe_advance_dispatch_input(b + 1, e, n - 1) ELSE b
\* the result of a call not made yet
NotCalled == 0 - 1

\* safe_advance(b, e, n) with iterators of a random-access container
safe_advance_random_access ==
  /\ sa.st = "live"
  /\ sa.random = NotCalled
  /\ sa' = [sa EXCEPT !.random = safe_advance_dispatch_random_access(sa.b, sa.e, sa.n)]
  /\ UNCHANGED <<seg, si, ga, notLl>>

\* safe_advance(b, e, n) with input iterators over the same positions
safe_advance_input ==
  /\ sa.st = "live"
  /\ sa.input = NotCalled
  /\ sa' = [sa EXCEPT !.input = safe_advance_dispatch_input(sa.b, sa.e, sa.n)]
  /\ UNCHANGED <<seg, si, ga, notLl>>

\* a range [b, e) and an amount n
SaInit ==
  /\ sa \in {[st |-> "live", b |-> b, e |-> e, n |-> n, random |-> NotCalled, input |-> NotCalled] :
              b \in 0..MaxPos, e \in 0..MaxPos, n \in 0..MaxAdvance}
  /\ sa.b <= sa.e
  /\ seg = [st |-> "idle"]
  /\ si = [st |-> "idle"]
  /\ ga = [st |-> "idle"]

SaNext ==
  \/ safe_advance_random_access
  \/ safe_advance_input

(***************************************************************************)
(* GAtomic<T> (Atomic.h) for an unsigned T of AtomicBits bits              *)
(***************************************************************************)
Updaters == 1..NumUpdaters
Modulus == 2 ^ AtomicBits
\* x reduced to the range of T
Wrap(x) == ((x % Modulus) + Modulus) % Modulus
\* the gcc builtins: one indivisible read-modify-write, result the new or the old value
sync_add_and_fetch(val, rhs) == [val |-> Wrap(val + rhs), ret |-> Wrap(val + rhs)]
sync_sub_and_fetch(val, rhs) == [val |-> Wrap(val - rhs), ret |-> Wrap(val - rhs)]
sync_fetch_and_add(val, rhs) == [val |-> Wrap(val + rhs), ret |-> val]
sync_fetch_and_sub(val, rhs) == [val |-> Wrap(val - rhs), ret |-> val]

\* T operator+=(const T& rhs)
GAtomic_add_assign(val, rhs) == sync_add_and_fetch(val, rhs)
\* T operator-=(const T& rhs)
GAtomic_sub_assign(val, rhs) == sync_sub_and_fetch(val, rhs)
\* T operator++()
GAtomic_pre_inc(val) == sync_add_and_fetch(val, 1)
\* the postfix increment returning what the prefix increment returns
GAtomic_post_inc_AsPrefix(val) == sync_add_and_fetch(val, 1)
\* T operator++(int)
GAtomic_post_inc(val) == sync_fetch_and_add(val, 1)
\* T operator--()
GAtomic_pre_dec(val) == sync_sub_and_fetch(val, 1)
\* T operator--(int)
GAtomic_post_dec(val) == sync_fetch_and_sub(val, 1)

\* thread t has applied an operator: r is what the operator did, delta what it
\* was asked to add; old remembers the value the operation found
GAtomic_applied(t, op, delta, r) ==
  ga' = [ga EXCEPT !.val = r.val,
                   !.op[t] = op,
                   !.delta[t] = delta,
                   !.old[t] = ga.val,
                   !.ret[t] = r.ret]

GAtomic_operator_add_assign(t) ==
  /\ ga.st = "live" /\ ga.op[t] = "none"
  /\ \E rhs \in 0..MaxDelta :
       GAtomic_applied(t, "+=", rhs, GAtomic_add_assign(ga.val, rhs))
  /\ UNCHANGED <<seg, si, sa, notLl>>

GAtomic_operator_sub_assign(t) ==
  /\ ga.st = "live" /\ ga.op[t] = "none"
  /\ \E rhs \in 0..MaxDelta :
       GAtomic_applied(t, "-=", 0 - rhs, GAtomic_sub_assign(ga.val, rhs))
  /\ UNCHANGED <<seg, si, sa, notLl>>

GAtomic_operator_pre_inc(t) ==
  /\ ga.st = "live" /\ ga.op[t] = "none"
  /\ GAtomic_applied(t, "++x", 1, GAtomic_pre_inc(ga.val))
  /\ UNCHANGED <<seg, si, sa, notLl>>

GAtomic_operator_post_inc(t) ==
  /\ ga.st = "live" /\ ga.op[t] = "none"
  /\ GAtomic_applied(t, "x++", 1, GAtomic_post_inc(ga.val))
  /\ UNCHANGED <<seg, si, sa, notLl>>

GAtomic_operator_pre_dec(t) ==
  /\ ga.st = "live" /\ ga.op[t] = "none"
  /\ GAtomic_applied(t, "--x", 0 - 1, GAtomic_pre_dec(ga.val))
  /\ UNCHANGED <<seg, si, sa, notLl>>

GAtomic_operator_post_dec(t) ==
  /\ ga.st = "live" /\ ga.op[t] = "none"
  /\ GAtomic_applied(t, "x--", 0 - 1, GAtomic_post_dec(ga.val))
  /\ UNCHANGED <<seg, si, sa, notLl>>

\* explicit GAtomic(const T& i), no thread has touched it
GaInit ==
  /\ \E i \in 0..(Modulus - 1) :
       ga = [st |-> "live", init |-> i, val |-> i,
             op |-> [t \in Updaters |-> "none"],
             delta |-> [t \in Updaters |-> 0],
             old |-> [t \in Updaters |-> 0],
             ret |-> [t \in Updaters |-> 0]]
  /\ seg = [st |-> "idle"]
  /\ si = [st |-> "idle"]
  /\ sa = [st |-> "idle"]

AddAssignStep == \E t \in Updaters : GAtomic_operator_add_assign(t)
SubAssignStep == \E t \in Updaters : GAtomic_operator_sub_assign(t)
PreIncStep == \E t \in Updaters : GAtomic_operator_pre_inc(t)
PostIncStep == \E t \in Updaters : GAtomic_operator_post_inc(t)
PreDecStep == \E t \in Updaters : GAtomic_operator_pre_dec(t)
PostDecStep == \E t \in Updaters : GAtomic_operator_post_dec(t)

GaNext ==
  \/ AddAssignStep
  \/ SubAssignStep
  \/ PreIncStep
  \/ PostIncStep
  \/ PreDecStep
  \/ PostDecStep

\* the low-level utilities when they are not used
LlIdle ==
  /\ seg = [st |-> "idle"]
  /\ si = [st |-> "idle"]
  /\ ga = [st |-> "idle"]
  /\ sa = [st |-> "idle"]

Init == LockInit /\ TermIdle /\ BagIdle /\ FgIdle /\ ConIdle /\ LlIdle
Next == LockNext
Spec == Init /\ [][Next]_vars

\* Termination detection
LockIdle ==
  /\ LockInit
  /\ layout = "CSR"

TermSpecInit == TermInit /\ LockIdle /\ BagIdle /\ FgIdle /\ ConIdle /\ LlIdle
TermSpec == TermSpecInit /\ [][TermNext]_vars
\* every worker keeps running its loop: it initializes, and when it has no work it
\* calls localTermination; a worker that has work keeps finishing items
TermFairness == \A w \in Workers :
  /\ WF_vars(initializeThread(w))
  /\ WF_vars(localTermination(w))
  /\ WF_vars(Consume(w))
TermFairSpec == TermSpecInit /\ [][TermNext]_vars /\ TermFairness

\* Insert bag
BagSpecInit == BagInit /\ LockIdle /\ TermIdle /\ FgIdle /\ ConIdle /\ LlIdle
BagSpec == BagSpecInit /\ [][BagNext]_vars

\* Graph files and the loader
GraphSpecInit == FgInit /\ LockIdle /\ TermIdle /\ BagIdle /\ ConIdle /\ LlIdle
GraphSpec == GraphSpecInit /\ [][FgNext]_vars

\* The graph layouts built from an intact file
LayoutSpecInit == GraphSpecInit /\ input.bad = "none"
LayoutSpec == LayoutSpecInit /\ [][LayoutNext]_vars

\* The life of a graph object: built from an intact file of a graph with edge
\* payload, payload written, destroyed
LifeInputs ==
  /\ FgInit /\ LockIdle /\ TermIdle /\ BagIdle /\ LlIdle
  /\ input.bad = "none"
  /\ input.g.sz # 0 /\ input.g.seed = 1
LifeSpecInit == LifeInputs /\ ConIdle
LifeSpec == LifeSpecInit /\ [][LifeNext]_vars

\* Every updater applies one read-modify-write operator to one GAtomic
GaSpecInit == GaInit /\ LockIdle /\ TermIdle /\ BagIdle /\ FgIdle /\ ConIdle
GaSpec == GaSpecInit /\ [][GaNext]_vars

\* safe_advance called with both kinds of iterator on every range and amount
SaSpecInit == SaInit /\ LockIdle /\ TermIdle /\ BagIdle /\ FgIdle /\ ConIdle
SaSpec == SaSpecInit /\ [][SaNext]_vars

\* Every worker calls get() on one StaticInstance
SiSpecInit == SiInit /\ LockIdle /\ TermIdle /\ BagIdle /\ FgIdle /\ ConIdle
SiSpec == SiSpecInit /\ [][SiNext]_vars

\* One worker pushes into an insert bag, for every element size up to the page size
SegSpecInit == SegInit /\ LockIdle /\ TermIdle /\ BagIdle /\ FgIdle /\ ConIdle
SegSpec == SegSpecInit /\ [][galois_insert_bag_push]_vars

\* FileGraph objects loaded from a buffer, from a file or from one another, and
\* destroyed
OwnSpec == LifeSpecInit /\ [][OwnNext]_vars

\* LC_Linear2_Graph::structureFromFile with its threads interleaved
ParSpec == LifeSpecInit /\ [][ParNext]_vars

\* The node records structureFromFile leaves, for every content of fresh memory
\* and every first word the payload constructor may write
MemorySpecInit == LifeInputs /\ ConInit
MemorySpec == MemorySpecInit /\ [][LayoutNext]_vars

(***************************************************************************)
(* Properties                                                              *)
(***************************************************************************)
AccessOps == {"getData", "getEdgeData", "edge_begin", "edge_end", "get"}

\* C1: conflict-detection safety.  Every record that an uncommitted iteration
\* reached through a checking accessor is marked as owned by that iteration, and
\* no record is held by two different uncommitted iterations at once: of two
\* iterations that go for the same record only one gets through without
\* ConflictAbort.
C1_ExclusiveHold ==
  \A i \in Iters : \A n \in acc[i] :
    /\ Owner[n] = i
    /\ \A j \in Iters \ {i} : n \notin acc[j]

\* C1 witness: an iteration asked LC_CSR_Graph::getData for a node that another
\* uncommitted iteration holds, and got ConflictAbort.
C1_Witness ==
  /\ layout = "CSR"
  /\ lastOp.op = "getData" /\ lastOp.flag = "ALL" /\ ~lastOp.ok
  /\ itState[lastOp.it] = "conflict"
  /\ \E j \in Iters \ {lastOp.it} : lastOp.node \in acc[j] /\ itState[j] = "running"

\* C2: conflict-detection independence.  An access raises ConflictAbort only when
\* the record asked for is held by another uncommitted iteration; iterations whose
\* record sets are disjoint therefore never abort one another.
C2_AbortOnlyOnSharedRecord ==
  (lastOp.op \in AccessOps /\ ~lastOp.ok) =>
    \E j \in Iters \ {lastOp.it} : lastOp.node \in acc[j]

\* C2 witness: two iterations of an LC_Linear2_Graph hold different nodes, both
\* are running, and the last getData went through.
C2_Witness ==
  /\ layout = "Linear2"
  /\ lastOp.op = "getData" /\ lastOp.flag = "ALL" /\ lastOp.ok
  /\ \E i, j \in Iters :
       /\ i # j
       /\ acc[i] # {} /\ acc[j] # {}
       /\ acc[i] \cap acc[j] = {}
       /\ lastOp.it = j /\ lastOp.node \in acc[j]
       /\ itState[i] = "running" /\ itState[j] = "running"

\* C10: idempotent re-acquire.  A checking access by an iteration to a record it
\* already holds succeeds, raises no ConflictAbort and leaves every ownership
\* marker as it was.
C10_IdempotentReacquire ==
  [][LET o == lastOp' IN
       (o.op \in AccessOps /\ shouldLock(o.flag) /\ o.node \in acc[o.it]
          /\ itState[o.it] = "running")
       => (o.ok /\ Owner' = Owner /\ itState'[o.it] = "running" /\ acc' = acc)]_vars

\* C10 witness: LC_CSR_Graph::edge_end on a node the iteration had acquired before.
C10_Witness ==
  /\ layout = "CSR"
  /\ lastOp.op = "edge_end" /\ lastOp.flag = "ALL"
  /\ lastOp.pre = lastOp.it
  /\ lastOp.ok
  /\ Owner[lastOp.node] = lastOp.it

\* C11: release on commit or abort.  A commit or abort of an iteration puts every
\* record the iteration held back to unlocked and leaves the other markers alone;
\* at every moment a record marked as owned by an iteration is one that this
\* iteration reached in its current, unfinished run; and a checking access to an
\* unlocked record succeeds.
C11_ReleaseOnFinish ==
  [][LET o == lastOp' IN
       /\ o.op \in {"commit", "abort"} =>
            \A L \in Lockables :
              Owner'[L] = (IF Owner[L] = o.it THEN NoOwner ELSE Owner[L])
       /\ \A L \in Lockables : Owner'[L] # NoOwner => L \in acc'[Owner'[L]]
       /\ (o.op \in AccessOps /\ shouldLock(o.flag) /\ o.pre = NoOwner) =>
            (o.ok /\ Owner'[o.node] = o.it)]_vars

\* C11 witness: an iteration that had acquired GWrapped objects was aborted and
\* the objects it held are unlocked again.
C11_Witness ==
  /\ layout = "GWrapped"
  /\ lastOp.op = "abort"
  /\ lastOp.rel # {}
  /\ \A L \in lastOp.rel : Owner[L] = NoOwner

\* C12: optimistic, non-blocking acquire.  A checking access to a record held by
\* another iteration returns at once with ConflictAbort for the caller; the
\* markers stay as they were and the holder keeps running with all it holds.
C12_LoserAbortsAtOnce ==
  [][LET o == lastOp' IN
       (o.op \in AccessOps /\ shouldLock(o.flag)
          /\ o.pre # NoOwner /\ o.pre # o.it)
       => /\ ~o.ok
          /\ itState'[o.it] = "conflict"
          /\ Owner' = Owner
          /\ itState'[o.pre] = itState[o.pre]
          /\ acc' = acc]_vars

\* C12 witness: LC_Linear_Graph::getData on a node held by a running iteration
\* fails, and the holder still runs and still holds the node.
C12_Witness ==
  /\ layout = "Linear"
  /\ lastOp.op = "getData" /\ lastOp.flag = "ALL" /\ ~lastOp.ok
  /\ lastOp.pre \in Iters \ {lastOp.it}
  /\ itState[lastOp.pre] = "running"
  /\ Owner[lastOp.node] = lastOp.pre

\* C13: an access made with flag NONE raises no ConflictAbort and changes no
\* ownership marker, whoever holds the record.
C13_NoneNeverChecks ==
  [][LET o == lastOp' IN
       (o.op \in AccessOps \cup {"getEdgeDataIt", "getEdgeDst"} /\ o.flag = "NONE")
       => (o.ok /\ Owner' = Owner /\ itState' = itState /\ acc' = acc)]_vars

\* C13 witness: LC_CSR_Graph::getEdgeData(edge_iterator) with its default flag on
\* an edge of a node that another iteration holds.
C13_Witness ==
  /\ layout = "CSR"
  /\ lastOp.op = "getEdgeDataIt" /\ lastOp.flag = "NONE" /\ lastOp.ok
  /\ lastOp.pre \in Iters \ {lastOp.it}
  /\ Owner[lastOp.node] = lastOp.pre

C3_TerminationSafe ==
  globalTermination =>
    /\ whiteHops = NumWorkers
    /\ \A w \in Workers : work[w] = 0

\* C3 witness: termination was declared at the end of a white circuit, after a
\* workHappened() call had made an earlier circuit fail.
C3_Witness ==
  /\ globalTermination
  /\ ~quiet
  /\ whiteHops = NumWorkers
  /\ hopsSinceAhead < HopCap

\* C4 as stated: once the workers are quiet, one full ring pass (one hand-over of
\* the token per worker, and the check by worker 0 that follows) is enough for
\* globalTermination() to be true.
C4_WithinOnePass ==
  (quiet /\ quietHops > NumWorkers) => globalTermination

\* C4 amended: once the workers are quiet, globalTermination() eventually becomes
\* true (at the check by worker 0 that ends the first circuit that stayed white,
\* which can be later than one ring pass after the workers stopped).
C4_EventuallyTerminates ==
  quiet ~> globalTermination

\* C4 witness: the workers went quiet while a worker was still dirty, and
\* termination was declared more than one ring pass later.
C4_Witness ==
  /\ quiet
  /\ globalTermination
  /\ quietHops > NumWorkers + 1

\* C5 as stated: a circuit during which any worker called workHappened() does not
\* declare termination.
C5_AnyCallDefers ==
  globalTermination => ~calledAny

\* C5 amended: a circuit during which worker 0, or a worker the token had not yet
\* left, called workHappened() does not declare termination, and at least one
\* more full ring pass follows such a call before globalTermination() is true.
C5_AheadCallDefers ==
  globalTermination =>
    /\ ~calledAhead
    /\ hopsSinceAhead > NumWorkers

\* C5 witness: termination was declared after some worker had called
\* workHappened() while the token was still to reach it.
C5_Witness ==
  /\ globalTermination
  /\ hopsSinceAhead < HopCap
  /\ calledAny

\* ---- insert bag ----
Count(seq, x) == Cardinality({k \in 1..Len(seq) : seq[k] = x})
\* usable slots of one segment
SegCap == newHeader.dlast - newHeader.dbegin
\* pages of worker w's segment list, head first
RECURSIVE ListOf(_, _)
ListOf(p, fuel) ==
  IF p = NullPage \/ fuel = 0 THEN <<>> ELSE <<p>> \o ListOf(hdr[p].next, fuel - 1)
Range(seq) == {seq[k] : k \in 1..Len(seq)}

\* everything pushed since the bag was last empty, worker by worker
RECURSIVE LogsFrom(_)
LogsFrom(w) == IF w >= HeadsSize THEN <<>> ELSE log[w] \o LogsFrom(w + 1)

\* C6: insert-bag completeness.  Iterating from begin() to end() arrives at
\* end() and yields every value as many times as it was pushed, and nothing else.
C6_IterationComplete ==
  bagAlive =>
    LET s == IterSeq IN
      /\ Len(s) = Len(LogsFrom(0))
      /\ \A x \in Values : Count(s, x) = Count(LogsFrom(0), x)

\* C6 witness: all pushes are done, two workers pushed, and one of them filled
\* more than one segment.
C6_Witness ==
  /\ bagAlive
  /\ nPush = MaxPush
  /\ \E w, u \in 0..(HeadsSize - 1) :
       w # u /\ Len(log[w]) > SegCap /\ Len(log[u]) > 0

\* C7 as stated: after clear() every page the bag allocated has been freed exactly
\* once, every element pushed has been destroyed exactly once, and the bag is empty.
C7_ClearReleasesAll ==
  bagOp.op = "clear" =>
    /\ begin = end
    /\ \A p \in 1..Len(hdr) :
         /\ pageFrees[p] = 1
         /\ \A k \in hdr[p].dbegin..(hdr[p].dend - 1) : dtorCalls[p][k] = 1

\* the order the iteration is to produce for worker w: its pushes cut into
\* segments of SegCap, newest segment first, each segment in push order
RECURSIVE Expected(_, _)
Expected(l, n) ==
  IF n = 0 THEN <<>>
  ELSE LET lo == (n - 1) * SegCap + 1
           hi == IF n * SegCap < Len(l) THEN n * SegCap ELSE Len(l)
       IN SubSeq(l, lo, hi) \o Expected(l, n - 1)
SegsOf(l) == (Len(l) + SegCap - 1) \div SegCap
RECURSIVE ExpectedFrom(_)
ExpectedFrom(w) ==
  IF w >= HeadsSize THEN <<>>
  ELSE Expected(log[w], SegsOf(log[w])) \o ExpectedFrom(w + 1)

\* C8: insert-bag iteration order.  Global iteration yields the workers' elements
\* in increasing worker index, each worker's segments newest first, each segment
\* in the order of the pushes.
C8_IterationOrder ==
  bagAlive => IterSeq = ExpectedFrom(0)

\* C8 witness: a worker has two segments, a later worker has elements too, and
\* the elements differ so that the order shows.
C8_Witness ==
  /\ bagAlive
  /\ \E w, u \in 0..(HeadsSize - 1) :
       /\ w < u
       /\ Len(log[w]) > SegCap
       /\ log[w][1] # log[w][Len(log[w])]
       /\ Len(log[u]) > 0

\* C9: single-writer append.  A push by worker w leaves the head pointer of every
\* other worker and every page of every other worker's list untouched.
C9_PushFrame ==
  [][bagOp'.op = "push" =>
       \A u \in (0..(HeadsSize - 1)) \ {bagOp'.w} :
         /\ heads'[u] = heads[u]
         /\ \A p \in Range(ListOf(heads[u], MaxPush)) : hdr'[p] = hdr[p]]_vars

\* C9 witness: a worker pushed, opening a new segment, while another worker
\* already had a segment.
C9_Witness ==
  /\ bagOp.op = "push"
  /\ hdr[heads[bagOp.w]].dend = hdr[heads[bagOp.w]].dbegin + 1
  /\ \E u \in (0..(HeadsSize - 1)) \ {bagOp.w} : heads[u] # NullPage

\* the offset table of g is non-decreasing, its last entry is numEdges and every
\* destination is a node of the graph
OffsetInvariant(g) ==
  /\ g.numNodes >= 0 /\ g.numEdges >= 0
  /\ \A i \in 0..(g.numNodes - 1) : OutIdx(g, i) # OutOfMapping
  /\ \A i \in 1..(g.numNodes - 1) : OutIdx(g, i - 1) <= OutIdx(g, i)
  /\ g.numNodes > 0 => OutIdx(g, g.numNodes - 1) = g.numEdges
  /\ \A it \in 0..(g.numEdges - 1) :
       FileGraph_getEdgeDst(g, it) >= 0 /\ FileGraph_getEdgeDst(g, it) < g.numNodes

\* g shows graph G: node count, edge count, adjacency of every node in stored
\* order, and the payload of every edge
Shows(g, G) ==
  /\ FileGraph_size(g) = G.n
  /\ FileGraph_sizeEdges(g) = G.e
  /\ g.sizeEdgeTy = G.sz
  /\ \A N \in 0..(G.n - 1) : FileGraph_edges(g, N) = AdjOf(G, N)
  /\ \A k \in 1..G.e : FileGraph_getEdgeData(g, k - 1) = PayOf(G, k)

\* C16: FileGraph round trip.  When an intact image has been loaded into one
\* FileGraph, written with structureToFile and the written file loaded into a
\* second FileGraph, the file holds the words of the first mapping verbatim and
\* both FileGraphs show the graph of the image: same node count, edge count,
\* adjacency in the same order and edge payload.
C16_RoundTrip ==
  (/\ fgOp.op = "structureFromFile" /\ fgOp.g = 2 /\ fgOp.file = "out"
   /\ fgOp.out = "ok"
   /\ input.bad = "none")
  => /\ disk["out"] = fg[1].masterMapping
     /\ fg[2].masterLength = fg[1].masterLength
     /\ Shows(fg[1], input.g)
     /\ Shows(fg[2], input.g)

\* C16 witness: a graph with an odd number of edges and a payload went through
\* write and reload.
C16_Witness ==
  /\ fgOp.op = "structureFromFile" /\ fgOp.g = 2 /\ fgOp.file = "out"
  /\ fgOp.out = "ok"
  /\ input.bad = "none"
  /\ input.g.e % 2 = 1 /\ input.g.sz # 0
  /\ fg[2].loaded

\* C17: load rejects malformed input.  Loading an image with a wrong version, a
\* decreasing offset table or counts that do not match the tables ends with
\* FormatError and leaves no loaded FileGraph.
C17_LoadRejectsMalformed ==
  (/\ fgOp.op \in {"structureFromFile", "structureFromMem"}
   /\ fgOp.file = "in"
   /\ input.bad # "none")
  => (fgOp.out = "FormatError" /\ ~fg[fgOp.g].loaded)

\* C18: offset invariant.  Every FileGraph that a load has returned has a
\* non-decreasing offset table whose last entry is numEdges, and all its
\* destinations are smaller than numNodes.
C18_OffsetInvariantOfLoaded ==
  \A k \in FGs : fg[k].loaded => OffsetInvariant(fg[k])

\* C20: adjacency queries.  In a FileGraph loaded from an intact image, the edges
\* of node i are the index range from offset[i-1] (0 for node 0) up to offset[i],
\* they yield the node's destinations in stored order, and hasNeighbor(src, dst)
\* is true exactly when dst is among the destinations of src; for the example
\* graph hasNeighbor(2, 3) holds, hasNeighbor(3, 0) does not and the edges of node
\* 0 lead to 1 and then 2.
C20_AdjacencyQueries ==
  \A k \in FGs : (fg[k].loaded /\ input.bad = "none") =>
    LET g == fg[k]
        G == input.g
    IN /\ \A N \in 0..(G.n - 1) :
            /\ FileGraph_edge_begin(g, N) = SumTo(G.deg, N)
            /\ FileGraph_edge_end(g, N) = SumTo(G.deg, N + 1)
            /\ FileGraph_raw_neighbor_begin(g, N) = FileGraph_edge_begin(g, N)
            /\ FileGraph_raw_neighbor_end(g, N) = FileGraph_edge_end(g, N)
            /\ FileGraph_edges(g, N) = AdjOf(G, N)
            /\ \A d \in 0..G.n :
                 FileGraph_hasNeighbor(g, N, d) <=>
                   (\E j \in 1..Len(AdjOf(G, N)) : AdjOf(G, N)[j] = d)
       /\ G = ExampleGraph =>
            /\ FileGraph_size(g) = 4 /\ FileGraph_sizeEdges(g) = 4
            /\ FileGraph_edges(g, 0) = <<1, 2>>
            /\ FileGraph_hasNeighbor(g, 2, 3)
            /\ ~FileGraph_hasNeighbor(g, 3, 0)

\* C20 witness: the example graph was written and loaded again from the written file.
C20_Witness ==
  /\ input = [g |-> ExampleGraph, bad |-> "none"]
  /\ fgOp.op = "structureFromFile" /\ fgOp.g = 2 /\ fgOp.file = "out"
  /\ fg[2].loaded
  /\ FileGraph_hasNeighbor(fg[2], 2, 3)

\* the handle of node id in built graph L, and the destinations that edge_begin ..
\* edge_end and getEdgeDst yield for the node with handle N
LayoutNode(L, id) ==
  CASE L.kind = "CSR" -> LC_CSR_node(L, id)
    [] L.kind = "CSRInline" -> LC_CSRInline_node(L, id)
    [] L.kind = "Linear" -> LC_Linear_node(L, id)
    [] L.kind = "Linear2" -> LC_Linear2_node(L, id)
LayoutEdges(L, N) ==
  CASE L.kind = "CSR" -> LC_CSR_edges(L, N)
    [] L.kind = "CSRInline" -> LC_CSRInline_edges(L, N)
    [] L.kind = "Linear" -> LC_Linear_edges(L, N)
    [] L.kind = "Linear2" -> LC_Linear2_edges(L, N)

\* C19: representation equivalence.  A graph of any of the four layouts built
\* from a file reports the node and edge count of the FileGraph of that file, its
\* nodes have distinct handles, and for every node the destinations obtained from
\* edge_begin, edge_end and getEdgeDst are the handles of the FileGraph's
\* destinations of that node, in the same order.
C19_SameAdjacency ==
  lc.kind # "none" =>
    LET g == LocalFileGraph("in")
        N == FileGraph_size(g)
    IN /\ lc.numNodes = N
       /\ lc.numEdges = FileGraph_sizeEdges(g)
       /\ \A a, b \in 0..(N - 1) : a # b => LayoutNode(lc, a) # LayoutNode(lc, b)
       /\ \A id \in 0..(N - 1) :
            LayoutEdges(lc, LayoutNode(lc, id)) =
              [k \in 1..Len(FileGraph_edges(g, id)) |->
                 LayoutNode(lc, FileGraph_edges(g, id)[k])]
       /\ \A id \in 0..(N - 1) : FileGraph_edges(g, id) = AdjOf(input.g, id)

\* C19 witness: an LC_Linear2_Graph whose nodes lie in the arenas of two workers
\* at least, built from a graph with two edges or more.
C19_Witness ==
  /\ lc.kind = "Linear2"
  /\ lc.numEdges >= 2
  /\ \E a, b \in 0..(lc.numNodes - 1) : lc.nodes[a][1] # lc.nodes[b][1]

\* C24: a failed acquire changes nothing.  When an access raises ConflictAbort
\* (the iteration goes from running to conflict), the record asked for was held
\* by another iteration and still is, no marker has changed, and the failing
\* iteration holds the same records as before the call.
C24_FailedAcquireChangesNothing ==
  [][\A i \in Iters :
       (itState[i] = "running" /\ itState'[i] = "conflict") =>
         /\ lastOp'.it = i /\ ~lastOp'.ok
         /\ lastOp'.pre \notin {NoOwner, i}
         /\ Owner'[lastOp'.node] = lastOp'.pre
         /\ Owner' = Owner
         /\ {L \in Lockables : Owner'[L] = i} = {L \in Lockables : Owner[L] = i}
         /\ acc' = acc]_vars

\* C24 witness: GWrapped::get raised ConflictAbort for an iteration that holds
\* another wrapped object; the object asked for is held by a different iteration.
C24_Witness ==
  /\ layout = "GWrapped"
  /\ lastOp.op = "get" /\ ~lastOp.ok
  /\ itState[lastOp.it] = "conflict"
  /\ Owner[lastOp.node] \notin {NoOwner, lastOp.it}
  /\ \E L \in Lockables : Owner[L] = lastOp.it

\* the workers that hold the token
TokenHolders == {w \in Workers : hasToken[w]}

\* C25: token uniqueness.  From worker 0's initializeThread on, through every
\* reset, exactly one worker has hasToken set; within a phase the token leaves a
\* worker only for its ring successor (index + 1 modulo the number of workers).
C25_TokenUnique ==
  [][/\ started[0] => Cardinality(TokenHolders) = 1
     /\ started'[0] => Cardinality({w \in Workers : hasToken'[w]}) = 1
     /\ \A w \in Workers :
          (hasToken[w] /\ ~hasToken'[w] /\ phase' = phase) =>
            hasToken'[(w + 1) % NumWorkers]]_vars

\* C25 witness: in a phase after a reset the token has gone round to the last worker.
C25_Witness ==
  /\ phase > 0
  /\ started[0]
  /\ hasToken[NumWorkers - 1]
  /\ ~globalTerm

C27_TerminationStable ==
  [][(globalTermination /\ ~globalTermination') =>
       (phase' = phase + 1 /\ NextPhase)]_vars

\* C27 witness: after termination was declared a worker called workHappened and
\* worker 0 ran localTermination again (the token has left worker 0), and
\* globalTermination() is still true.
C27_Witness ==
  /\ globalTermination
  /\ started[0]
  /\ ~hasToken[0]

\* the sum of the out-degrees of nodes lo .. hi - 1 of the input graph
DegreesIn(lo, hi) == SumTo(input.g.deg, hi) - SumTo(input.g.deg, lo)
\* the node range of worker t after distribute
RangeOf(d, t) == d[t].begin..(d[t].end - 1)

ConstructedBy(L, t) ==
  IF t \in 0..(L.num - 1)
  THEN [k \in 1..L.dinfo[t].numNodes |-> L.nodes[L.dinfo[t].begin + k - 1]]
  ELSE <<>>

\* C30: Linear2 worker-local iteration.  For every worker, the loop from
\* local_begin() to local_end() yields exactly the nodes the worker constructed in
\* its chunk, in construction order, and nothing when its chunk is empty.
C30_LocalIteration ==
  lc.kind = "Linear2" =>
    \A t \in Workers : LC_Linear2_local_nodes(lc, t) = ConstructedBy(lc, t)

\* C30, the part that holds: a worker whose chunk is not empty, and a thread that
\* took no part in the construction
C30_LocalIterationNonEmpty ==
  lc.kind = "Linear2" =>
    \A t \in Workers :
      (t >= lc.num \/ lc.dinfo[t].numNodes > 0) =>
        LC_Linear2_local_nodes(lc, t) = ConstructedBy(lc, t)

\* ---- the life of a graph object ----
\* what the accessors size, sizeEdges, begin .. end, edge_begin .. edge_end,
\* getEdgeDst (and with them hasNeighbor) report of a built graph
Topology(L) ==
  [numNodes |-> L.numNodes,
   numEdges |-> L.numEdges,
   nodes |-> [id \in 0..(L.numNodes - 1) |-> LayoutNode(L, id)],
   edges |-> [id \in 0..(L.numNodes - 1) |-> LayoutEdges(L, LayoutNode(L, id))]]

\* C21: topology is immutable after construction.  Once structureFromFile has
\* built a graph of any of the four layouts, no step on the living graph (the
\* accessors only read; a caller writes node or edge payload through the
\* references getData and getEdgeData return) changes the node count, the edge
\* count, a node handle, a node's edge range or an edge's destination.
C21_TopologyImmutable ==
  [][(lc.kind \in Layouts /\ lc'.kind \in Layouts) => Topology(lc') = Topology(lc)]_vars
\* an edge payload of a built CSRInline graph has been written
C21_Witness ==
  /\ lc.kind = "CSRInline"
  /\ nwrites = MaxWrites
  /\ lc # LC_CSRInline_Graph(LocalFileGraph("in"))

\* C22: graph destruction releases everything.  Once a graph of any of the four
\* layouts is destroyed, every arena it allocated has been freed exactly once with
\* the size it was allocated with, and the destructor of every constructed node
\* and edge payload has run exactly once.
C22_DestructionReleasesAll ==
  lc.kind = "destroyed" =>
    /\ \A a \in DOMAIN arena : arena[a].freed = <<arena[a].size>>
    /\ \A k \in DOMAIN payRuns.nodeCtor : payRuns.nodeDtor[k] = payRuns.nodeCtor[k]
    /\ \A k \in DOMAIN payRuns.edgeCtor : payRuns.edgeDtor[k] = payRuns.edgeCtor[k]
\* every arena is given back exactly once (with whatever size)
ArenasFreedOnce ==
  lc.kind = "destroyed" => \A a \in DOMAIN arena : Len(arena[a].freed) = 1

\* C28: markers start unlocked.  After structureFromFile, in each of the four
\* layouts, the conflict-detection marker of every node record is unlocked,
\* whatever the payload constructor writes and the allocator's memory held.
C28_MarkersStartUnlocked ==
  (lc.kind \in Layouts /\ nwrites = 0) =>
    \A id \in DOMAIN nodeRec : nodeRec[id].marker = NoOwner
\* the same of LC_Linear2_Graph alone, which zeroes its arenas
Linear2MarkersStartUnlocked ==
  (lc.kind = "Linear2" /\ nwrites = 0) =>
    \A id \in DOMAIN nodeRec : nodeRec[id].marker = NoOwner

\* ---- the parallel construction of LC_Linear2_Graph ----
\* C23: Linear2 parallel construction ordering.  During structureFromFile every
\* entry nodes[id] is written at most once, and only by the worker whose segment
\* holds id; once AllocateEdges runs every entry has been written exactly once; no
\* entry is read while a worker is still in AllocateNodes, and no edge
\* destination or edge place is resolved from an unwritten entry.
C23_ConstructionOrdering ==
  par.stage # "idle" =>
    /\ \A n \in DOMAIN par.writers :
         /\ Len(par.writers[n]) <= 1
         /\ \A k \in DOMAIN par.writers[n] :
              LET w == par.writers[n][k]
              IN par.dinfo[w].begin <= n /\ n < par.dinfo[w].end
         /\ par.stage \in {"AllocateEdges", "done"} => Len(par.writers[n]) = 1
         /\ (par.nodes[n] = Unwritten) = (par.writers[n] = <<>>)
    /\ ~par.earlyRead
    /\ ~par.unwrittenRead
    /\ \A a \in DOMAIN par.EdgeAt : par.EdgeAt[a].dst # Unwritten
\* the construction is over, two workers wrote entries of nodes, and an edge laid
\* out by one worker leads to a node constructed by another
C23_Witness ==
  /\ par.stage = "done"
  /\ \E n, m \in DOMAIN par.writers : par.writers[n] # par.writers[m]
  /\ \E a \in DOMAIN par.EdgeAt : par.EdgeAt[a].dst[1] # a[1]
\* the graph the threads leave is the graph of the construction taken as one step
ParallelAsSequential ==
  par.stage = "done" => lc = LC_Linear2_Graph(LocalFileGraph("in"), par.num)

\* ---- the place of the payload table ----
\* C31: payload table alignment.  parse places the edge payload table at byte
\* offset 32 + 8 * numNodes + 4 * numEdges, plus 4 bytes of padding exactly when
\* numEdges is odd, so the table starts at a multiple of 8 bytes from the start
\* of the image, whatever node and edge count the header holds.
C31_PayloadAligned ==
  \A k \in FGs :
    fg[k].loaded =>
      LET base == HeaderWords * WordBytes + Words64 * WordBytes * fg[k].numNodes
                    + WordBytes * fg[k].numEdges
          at == fg[k].edgeData * WordBytes
      IN /\ at = base + (IF fg[k].numEdges % 2 = 1 THEN WordBytes ELSE 0)
         /\ at % (Words64 * WordBytes) = 0
\* a loaded image with an odd edge count: the table lies 4 bytes after the destinations
C31_Witness ==
  \E k \in FGs :
    /\ fg[k].loaded
    /\ fg[k].numEdges % 2 = 1
    /\ fg[k].numNodes > 0
    /\ fg[k].edgeData * WordBytes = 32 + 8 * fg[k].numNodes + 4 * fg[k].numEdges + 4

\* ---- the bytes the records of the linear layouts occupy ----
\* the records of a built LC_Linear_Graph as byte ranges [lo, hi) of Data, and
\* those of worker t's arena of a built LC_Linear2_Graph
LinearRecords(L) ==
  {[lo |-> a, hi |-> a + SizeofNodeInfo] : a \in DOMAIN L.NodeAt}
    \cup {[lo |-> a, hi |-> a + SizeofEdgeInfo] : a \in DOMAIN L.EdgeAt}
Linear2Records(L, t) ==
  {[lo |-> a[2], hi |-> a[2] + SizeofNodeInfo] : a \in {x \in DOMAIN L.NodeAt : x[1] = t}}
    \cup {[lo |-> a[2], hi |-> a[2] + SizeofEdgeInfo] :
            a \in {x \in DOMAIN L.EdgeAt : x[1] = t}}
\* the ranges of recs lie between lo and hi and no two of them share a byte
PackedIn(recs, lo, hi) ==
  /\ \A r \in recs : lo <= r.lo /\ r.hi <= hi
  /\ \A r, q \in recs : r = q \/ r.hi <= q.lo \/ q.hi <= r.lo

\* C32: the linear layouts stay inside their arenas.  The node and edge records
\* LC_Linear_Graph::structureFromFile lays out occupy pairwise disjoint byte
\* ranges within Data, and those of every worker of LC_Linear2_Graph occupy
\* pairwise disjoint byte ranges within the worker's arena, after its Header.
C32_LinearInsideArena ==
  /\ lc.kind = "Linear" =>
       /\ Cardinality(DOMAIN lc.NodeAt) = lc.numNodes
       /\ Cardinality(DOMAIN lc.EdgeAt) = lc.numEdges
       /\ PackedIn(LinearRecords(lc), 0, arena[<<"Data", 0>>].size.n)
  /\ lc.kind = "Linear2" =>
       /\ Cardinality(DOMAIN lc.NodeAt) = lc.numNodes
       /\ Cardinality(DOMAIN lc.EdgeAt) = lc.numEdges
       /\ \A t \in DOMAIN lc.headers :
            PackedIn(Linear2Records(lc, t), SizeofChunkHeader, arena[<<"raw", t>>].size.n)
\* a Linear2 worker laid out two nodes or more, the first of them with an edge
C32_Witness ==
  /\ lc.kind = "Linear2"
  /\ \E t \in DOMAIN lc.headers :
       /\ lc.dinfo[t].numNodes >= 2
       /\ lc.NodeAt[lc.nodes[lc.dinfo[t].begin]].numEdges >= 1

\* ---- the sizes the destructors give back ----
\* C33: arenas are freed with their allocation size.  For each of the four
\* layouts, whenever the destructor releases an arena it passes the size that
\* structureFromFile passed when it allocated that arena.
C33_FreedWithAllocationSize ==
  lc.kind = "destroyed" =>
    \A a \in DOMAIN arena :
      \A k \in DOMAIN arena[a].freed : arena[a].freed[k] = arena[a].size
\* the same of the layouts other than LC_CSRInline_Graph
FreedWithAllocationSizeElsewhere ==
  [][(lc.kind \in {"CSR", "Linear", "Linear2"} /\ lc'.kind = "destroyed") =>
       \A a \in DOMAIN arena : arena'[a].freed = <<arena[a].size>>]_vars

\* ---- what ~FileGraph gives back ----
\* C35: FileGraph releases only what it owns.  Every region a FileGraph
\* destructor unmaps is one the FileGraph mapped itself (the file, or the private
\* copy of structureFromMem with clone), every descriptor it closes is one it
\* opened, and the buffer the caller passed to structureFromMem stays mapped.
C35_ReleasesOnlyOwn ==
  /\ \A i \in DOMAIN os.munmap : os.munmap[i].region \in {"file", "private"}
  /\ \A i \in DOMAIN os.close : os.close[i].fd = OpenedFD /\ os.fd[os.close[i].g] = "closed"
  /\ os.caller = "mapped"
\* the same of FileGraphs that were not loaded from the caller's buffer in place
OwnedRegionsReleased ==
  /\ \A i \in DOMAIN os.munmap :
       os.munmap[i].region # "caller" => os.munmap[i].region \in {"file", "private"}
  /\ \A i \in DOMAIN os.close : os.close[i].fd = OpenedFD
  /\ (\A i \in DOMAIN os.munmap : os.munmap[i].region # "caller") => os.caller = "mapped"
  /\ \A k \in FGs :
       (~os.alive[k] /\ fg[k].loaded) =>
         /\ \E i \in DOMAIN os.munmap : os.munmap[i].g = k
         /\ (fg[k].masterFD # 0) = (\E i \in DOMAIN os.close : os.close[i].g = k)

\* ---- the segments of an insert bag ----
SegmentInBounds(h, sizeofT) ==
  /\ h.dbegin * sizeofT >= SizeofHeader
  /\ h.dlast * sizeofT <= SegPageSize
  /\ h.dbegin <= h.dend
  /\ h.dend <= h.dlast
\* C34: insert-bag segment bounds.  For every element size from 1 byte up to
\* the page size, the data region of every segment lies inside its page after the
\* segment header, dbegin <= dend <= dlast holds after any sequence of pushes, and
\* push never constructs an element at or beyond dlast.
C34_SegmentBounds ==
  seg.st = "live" =>
    /\ \A h \in DOMAIN seg.segs : SegmentInBounds(seg.segs[h], seg.sizeofT)
    /\ ~seg.beyond
\* the same when two elements or more fit into a page
SegmentBoundsWithRoom ==
  (seg.st = "live" /\ 2 * seg.sizeofT <= SegPageSize) =>
    /\ \A h \in DOMAIN seg.segs : SegmentInBounds(seg.segs[h], seg.sizeofT)
    /\ ~seg.beyond
\* the data region never starts inside the header nor ends outside the page
SegmentRegionInPage ==
  seg.st = "live" =>
    \A h \in DOMAIN seg.segs :
      /\ seg.segs[h].dbegin * seg.sizeofT >= SizeofHeader
      /\ seg.segs[h].dlast * seg.sizeofT <= SegPageSize

\* ---- StaticInstance ----
\* C36: StaticInstance single construction.  Under every interleaving of
\* concurrent get() calls on one StaticInstance, T is constructed at most once,
\* exactly once when some get() has returned, and every get() that has returned
\* has returned the same non-null pointer.
C36_SingleConstruction ==
  si.st = "live" =>
    /\ si.made <= 1
    /\ \A t \in Workers :
         si.pc[t] = "return" => (si.made = 1 /\ si.val[t] # NullT /\ si.val[t] = si.V)
    /\ \A t, u \in Workers :
         (si.pc[t] = "return" /\ si.pc[u] = "return") => si.val[t] = si.val[u]
\* every get() has returned: one through the first test of V, one after waiting
\* for the lock and finding V set, one after constructing
C36_Witness ==
  /\ si.st = "live"
  /\ \A t \in Workers : si.pc[t] = "return"
  /\ \E t, u \in Workers : si.tries[t] = 0 /\ si.tries[u] >= 2

\* C37: StaticInstance lock mutual exclusion.  At most one thread is between a
\* return from lock() and the following unlock(), that thread's fetch-and-or
\* observed the lock bit clear, the lock bit is set exactly while there is such
\* a thread, and unlock() by the holder clears it.
C37_LockMutualExclusion ==
  si.st = "live" =>
    /\ Cardinality(Holders) <= 1
    /\ \A t \in Holders : si.oldval[t] % 2 = 0
    /\ (si.lock = 1) = (Holders # {})
\* one thread holds the lock while another has lost the fetch-and-or to it
C37_Witness ==
  /\ si.st = "live"
  /\ \E t, u \in Workers :
       /\ t \in Holders
       /\ u \notin Holders /\ si.pc[u] = "spin" /\ si.oldval[u] = 1

\* ---- safe_advance ----
\* b advanced by n, but not beyond e
Clamped(b, e, n) == IF n <= e - b THEN b + n ELSE e
\* C39: safe_advance is a clamped advance.  For every range [b, e) and every
\* n >= 0, safe_advance(b, e, n) returns b advanced by n when n does not exceed
\* distance(b, e) and e otherwise, and the random-access overload and the
\* input-iterator overload return the same position.
C39_SafeAdvanceClamps ==
  sa.st = "live" =>
    /\ sa.random # NotCalled => sa.random = Clamped(sa.b, sa.e, sa.n)
    /\ sa.input # NotCalled => sa.input = Clamped(sa.b, sa.e, sa.n)
    /\ (sa.random # NotCalled /\ sa.input # NotCalled) => sa.random = sa.input
\* the input-iterator overload alone is a clamped advance
InputAdvanceClamps ==
  (sa.st = "live" /\ sa.input # NotCalled) => sa.input = Clamped(sa.b, sa.e, sa.n)
\* the random-access overload is right exactly when n is the length of the range
RandomAccessAdvanceInverted ==
  (sa.st = "live" /\ sa.random # NotCalled) =>
    /\ (sa.random = Clamped(sa.b, sa.e, sa.n)) = (sa.n = sa.e - sa.b)
    /\ sa.n < sa.e - sa.b => sa.random = sa.e
    /\ sa.n > sa.e - sa.b => sa.random = sa.b + sa.n

\* ---- GAtomic ----
\* the updaters whose operation has taken place
Applied == {t \in Updaters : ga.op[t] # "none"}
RECURSIVE SumDeltas(_)
SumDeltas(T) ==
  IF T = {} THEN 0
  ELSE LET t == CHOOSE x \in T : TRUE IN ga.delta[t] + SumDeltas(T \ {t})
\* C38: GAtomic read-modify-write atomicity.  In every interleaving of
\* concurrent ++, --, += and -= on one GAtomic no update is lost (the value is
\* the initial value plus the sum of the deltas applied so far, modulo the
\* width), the prefix and compound forms return the value after their
\* operation and the postfix forms the value before it, and the values
\* returned by n increments of one form are n distinct consecutive values.
C38_AtomicReadModifyWrite ==
  ga.st = "live" =>
    /\ ga.val = Wrap(ga.init + SumDeltas(Applied))
    /\ \A t \in Applied :
         IF ga.op[t] \in {"x++", "x--"}
         THEN ga.ret[t] = ga.old[t]
         ELSE ga.ret[t] = Wrap(ga.old[t] + ga.delta[t])
    /\ \A form \in {"++x", "x++"} :
         (\A t \in Applied : ga.op[t] = form) =>
           LET first == IF form = "++x" THEN ga.init + 1 ELSE ga.init
           IN /\ {ga.ret[t] : t \in Applied} =
                   {Wrap(first + k) : k \in 0..(Cardinality(Applied) - 1)}
              /\ \A t, u \in Applied : t # u => ga.ret[t] # ga.ret[u]
\* every updater has applied the postfix increment, starting at the largest
\* value of the type, so that the counter wrapped around
C38_Witness ==
  /\ ga.st = "live"
  /\ ga.init = Modulus - 1
  /\ \A t \in Updaters : ga.op[t] = "x++"
  /\ ga.val = Wrap(ga.init + NumUpdaters)

====
